---- MODULE Spec2Model ----
(***************************************************************************)
(* Pattern classification engine of src/PatternAnalysis/pattern_model.py:  *)
(* feature extraction, the seven detectors and the cascade that turns a    *)
(* price series into one PatternType label.                                *)
(*                                                                         *)
(* Prices are integers (ticks of 0.1, so 1000 stands for 100.0).  Every    *)
(* float the code computes from them is a rational number; it is kept      *)
(* exact, as a fraction of unbounded integers, and the 1e-8 guard of the   *)
(* code is the exact rational 1/10^8.  A float division by zero gives the  *)
(* IEEE values inf, -inf and nan, as numpy does.  The exact value and the  *)
(* float the code computes agree on every comparison against a threshold   *)
(* unless the exact value lies within rounding error of the threshold.     *)
(***************************************************************************)
EXTENDS Integers, Sequences, FiniteSets, TLC

(***************************************************************************)
(* Unbounded naturals: little-endian sequences of limbs in base 10^4,      *)
(* without leading zero limbs; <<>> is zero.                               *)
(***************************************************************************)
RECURSIVE N(_)
N(x) == IF x = 0 THEN <<>> ELSE <<x % 10000>> \o N(x \div 10000)

RECURSIVE Strip(_)
Strip(a) == IF a # <<>> /\ a[Len(a)] = 0 THEN Strip(SubSeq(a, 1, Len(a) - 1)) ELSE a

RECURSIVE AddC(_, _, _)
AddC(a, b, c) ==
    IF a = <<>> /\ b = <<>>
    THEN (IF c = 0 THEN <<>> ELSE <<c>>)
    ELSE LET x == (IF a = <<>> THEN 0 ELSE a[1]) + (IF b = <<>> THEN 0 ELSE b[1]) + c
         IN  <<x % 10000>> \o AddC(IF a = <<>> THEN a ELSE Tail(a),
                                  IF b = <<>> THEN b ELSE Tail(b), x \div 10000)

NAdd(a, b) == AddC(a, b, 0)

\* a - b for a >= b
RECURSIVE SubB(_, _, _)
SubB(a, b, c) ==
    IF a = <<>>
    THEN <<>>
    ELSE LET x == a[1] - (IF b = <<>> THEN 0 ELSE b[1]) - c
         IN  <<IF x < 0 THEN x + 10000 ELSE x>>
             \o SubB(Tail(a), IF b = <<>> THEN b ELSE Tail(b), IF x < 0 THEN 1 ELSE 0)

NSub(a, b) == Strip(SubB(a, b, 0))

RECURSIVE MulD(_, _, _)
MulD(a, d, c) ==
    IF a = <<>>
    THEN (IF c = 0 THEN <<>> ELSE <<c>>)
    ELSE LET x == a[1] * d + c IN <<x % 10000>> \o MulD(Tail(a), d, x \div 10000)

RECURSIVE NMul(_, _)
NMul(a, b) ==
    IF a = <<>> \/ b = <<>>
    THEN <<>>
    ELSE LET r == NMul(a, Tail(b))
         IN  NAdd(IF b[1] = 0 THEN <<>> ELSE MulD(a, b[1], 0),
                  IF r = <<>> THEN <<>> ELSE <<0>> \o r)

RECURSIVE CmpAt(_, _, _)
CmpAt(a, b, i) ==
    IF i = 0 THEN 0
    ELSE IF a[i] < b[i] THEN -1
    ELSE IF a[i] > b[i] THEN 1
    ELSE CmpAt(a, b, i - 1)

NCmp(a, b) ==
    IF Len(a) < Len(b) THEN -1
    ELSE IF Len(a) > Len(b) THEN 1
    ELSE CmpAt(a, b, Len(a))

(***************************************************************************)
(* Unbounded integers: <<sign, magnitude>> with sign in {-1, 0, 1}.        *)
(***************************************************************************)
Z(x) == IF x = 0 THEN <<0, <<>>>> ELSE IF x > 0 THEN <<1, N(x)>> ELSE <<-1, N(-x)>>

ZNeg(a) == <<-a[1], a[2]>>

ZAdd(a, b) ==
    IF a[1] = 0 THEN b
    ELSE IF b[1] = 0 THEN a
    ELSE IF a[1] = b[1] THEN <<a[1], NAdd(a[2], b[2])>>
    ELSE LET c == NCmp(a[2], b[2])
         IN  IF c = 0 THEN <<0, <<>>>>
             ELSE IF c > 0 THEN <<a[1], NSub(a[2], b[2])>>
             ELSE <<b[1], NSub(b[2], a[2])>>

ZMul(a, b) == IF a[1] = 0 \/ b[1] = 0 THEN <<0, <<>>>> ELSE <<a[1] * b[1], NMul(a[2], b[2])>>

ZCmp(a, b) == ZAdd(a, ZNeg(b))[1]

(***************************************************************************)
(* Exact rationals [num, den] with den > 0; fractions are not reduced, so  *)
(* two rationals are compared with QCmp, never with =.                     *)
(***************************************************************************)
Q(a, b) == [num |-> Z(a), den |-> N(b)]

QInt(a) == Q(a, 1)

QNeg(x) == [num |-> ZNeg(x.num), den |-> x.den]

QAdd(x, y) ==
    [num |-> ZAdd(ZMul(x.num, <<1, y.den>>), ZMul(y.num, <<1, x.den>>)),
     den |-> NMul(x.den, y.den)]

QSub(x, y) == QAdd(x, QNeg(y))

QMul(x, y) == [num |-> ZMul(x.num, y.num), den |-> NMul(x.den, y.den)]

\* x / y for y # 0
QDiv(x, y) ==
    [num |-> ZMul(ZMul(x.num, <<1, y.den>>), <<y.num[1], <<1>>>>),
     den |-> NMul(x.den, y.num[2])]

QAbs(x) == [num |-> <<x.num[1] * x.num[1], x.num[2]>>, den |-> x.den]

QSgn(x) == x.num[1]

QCmp(x, y) == ZCmp(ZMul(x.num, <<1, y.den>>), ZMul(y.num, <<1, x.den>>))

QLt(x, y) == QCmp(x, y) < 0

QGt(x, y) == QCmp(x, y) > 0

QLe(x, y) == QCmp(x, y) <= 0

QGe(x, y) == QCmp(x, y) >= 0

\* the additive guard 1e-8 of every guarded division
EPS == Q(1, 100000000)

(***************************************************************************)
(* Float values that may come from an unguarded division: a rational, or   *)
(* one of the IEEE specials.  Every comparison with nan is false.          *)
(***************************************************************************)
Inf == [special |-> "inf"]

NegInf == [special |-> "-inf"]

NaN == [special |-> "nan"]

IsSpecial(x) == x \in {Inf, NegInf, NaN}

\* a / b on floats holding the integers a and b (numpy: no exception for b = 0)
FDiv(a, b) ==
    IF b = 0 THEN (IF a > 0 THEN Inf ELSE IF a < 0 THEN NegInf ELSE NaN)
    ELSE IF b > 0 THEN Q(a, b)
    ELSE Q(-a, -b)

FAbs(x) == IF x = NaN THEN NaN ELSE IF IsSpecial(x) THEN Inf ELSE QAbs(x)

FGt(x, t) == IF x = Inf THEN TRUE ELSE IF IsSpecial(x) THEN FALSE ELSE QGt(x, t)

FLt(x, t) == IF x = NegInf THEN TRUE ELSE IF IsSpecial(x) THEN FALSE ELSE QLt(x, t)

(***************************************************************************)
(* A non-negative real given by its square (a standard deviation).         *)
(***************************************************************************)
Root(q) == [square |-> q]

RootGt(r, t) == QGt(r.square, QMul(t, t))

RootLt(r, t) == QLt(r.square, QMul(t, t))

(***************************************************************************)
(* numpy on a column of n bars; bar i (0-based) of v is v[i + 1].          *)
(***************************************************************************)
\* Python's None: as an Optional[PatternType], and where the other values are
\* records (a DataFrame, a PatternFeatures)
None == "None"

Null == [none |-> TRUE]

\* v[a:b] for 0 <= a <= b <= len(v)
Slice(v, a, b) == SubSeq(v, a + 1, b)

RECURSIVE SumTo(_, _)
SumTo(v, i) == IF i = 0 THEN 0 ELSE v[i] + SumTo(v, i - 1)

Sum(v) == SumTo(v, Len(v))

\* sum of x * v[x] for x = 0 .. n-1
RECURSIVE SumXYTo(_, _)
SumXYTo(v, i) == IF i = 0 THEN 0 ELSE (i - 1) * v[i] + SumXYTo(v, i - 1)

RECURSIVE SumSqTo(_, _)
SumSqTo(v, i) == IF i = 0 THEN 0 ELSE v[i] * v[i] + SumSqTo(v, i - 1)

RECURSIVE MaxTo(_, _)
MaxTo(v, i) == IF i = 1 THEN v[1] ELSE LET m == MaxTo(v, i - 1) IN IF v[i] > m THEN v[i] ELSE m

RECURSIVE MinTo(_, _)
MinTo(v, i) == IF i = 1 THEN v[1] ELSE LET m == MinTo(v, i - 1) IN IF v[i] < m THEN v[i] ELSE m

Max(v) == MaxTo(v, Len(v))

Min(v) == MinTo(v, Len(v))

\* np.mean
Mean(v) == Q(Sum(v), Len(v))

\* np.std squared (population variance)
Variance(v) ==
    LET n == Len(v)
    IN  [num |-> ZAdd(ZMul(Z(n), Z(SumSqTo(v, n))), ZNeg(ZMul(Z(Sum(v)), Z(Sum(v))))),
         den |-> N(n * n)]

\* slope of the least-squares line through (x, v[x]), x = 0 .. n-1, n >= 2
\* (np.polyfit(x, v, 1)[0] and the slope of np.linalg.lstsq)
Slope(v) ==
    LET n   == Len(v)
        sx  == (n * (n - 1)) \div 2
        sxx == ((n - 1) * n * (2 * n - 1)) \div 6
    IN  Q(n * SumXYTo(v, n) - sx * Sum(v), n * sxx - sx * sx)

\* slope / (np.mean(v) + 1e-8)
NormalizedSlope(v) == QDiv(Slope(v), QAdd(Mean(v), EPS))

\* sum of (3 u^2 - (n^2 - 1)) * v[x], u = 2 x - (n - 1): twelve times the
\* quadratic polynomial orthogonal to 1 and x on x = 0 .. n-1
RECURSIVE SumP2To(_, _)
SumP2To(v, i) ==
    IF i = 0 THEN 0
    ELSE LET n == Len(v)
             u == 2 * (i - 1) - (n - 1)
         IN  (3 * u * u - (n * n - 1)) * v[i] + SumP2To(v, i - 1)

\* leading coefficient of the least-squares parabola (np.polyfit(x, v, 2)[0]),
\* n >= 3: 15 * SumP2 / (n (n^2 - 1) (n^2 - 4))
QuadCoeff(v) ==
    LET n == Len(v)
    IN  [num |-> ZMul(Z(15), Z(SumP2To(v, n))),
         den |-> NMul(N(n), NMul(N(n * n - 1), N(n * n - 4)))]

\* the k-th smallest element of v, k = 1 .. n
Kth(v, k) ==
    LET I == 1 .. Len(v)
    IN  v[CHOOSE i \in I : /\ Cardinality({j \in I : v[j] < v[i]}) < k
                           /\ k <= Cardinality({j \in I : v[j] <= v[i]})]

\* np.percentile(v, q), linear interpolation between the neighbouring ranks
Percentile(v, q) ==
    LET pos == q * (Len(v) - 1)
        lo  == pos \div 100
        hi  == IF lo + 2 > Len(v) THEN Len(v) ELSE lo + 2
        a   == Kth(v, lo + 1)
        b   == Kth(v, hi)
    IN  Q(100 * a + (b - a) * (pos % 100), 100)

\* np.argmax: the first index (0-based) of the maximum
ArgMax(v) == (CHOOSE i \in 1 .. Len(v) : v[i] = Max(v) /\ \A j \in 1 .. (i - 1) : v[j] < v[i]) - 1

\* np.sum(np.diff(closes) > 0)
UpDays(v) == Cardinality({i \in 2 .. Len(v) : v[i] > v[i - 1]})

\* scipy.signal.argrelextrema(v, comparator, order, mode='clip'): the
\* 0-based indices, ascending, whose value beats both neighbours at every
\* distance 1 .. order, indices beyond an end being clipped to that end
Clip(i, n) == IF i < 1 THEN 1 ELSE IF i > n THEN n ELSE i

Beats(greater, a, b) == IF greater THEN a > b ELSE a < b

IsExtremum(v, greater, order, i) ==
    \A s \in 1 .. order : /\ Beats(greater, v[i], v[Clip(i + s, Len(v))])
                          /\ Beats(greater, v[i], v[Clip(i - s, Len(v))])

RECURSIVE ExtremaFrom(_, _, _, _)
ExtremaFrom(v, greater, order, i) ==
    IF i > Len(v) THEN <<>>
    ELSE (IF IsExtremum(v, greater, order, i) THEN <<i - 1>> ELSE <<>>)
         \o ExtremaFrom(v, greater, order, i + 1)

ArgRelExtrema(v, greater, order) == ExtremaFrom(v, greater, order, 1)

\* v[indices]
Take(v, indices) == [k \in 1 .. Len(indices) |-> v[indices[k] + 1]]

\* np.argsort(v)[:3] (ascending) and np.argsort(v)[::-1][:3] (descending) as
\* 1-based positions; the sort is stable, so equal values keep their order
\* in the ascending sort and reverse it in the descending one
Before(v, descending, i, j) ==
    IF descending THEN v[i] > v[j] \/ (v[i] = v[j] /\ i > j)
    ELSE v[i] < v[j] \/ (v[i] = v[j] /\ i < j)

ArgSort3(v, descending) ==
    [k \in 1 .. 3 |->
        CHOOSE i \in 1 .. Len(v) :
            Cardinality({j \in 1 .. Len(v) : Before(v, descending, j, i)}) = k - 1]

(***************************************************************************)
(* PatternType (IntEnum) and the DataFrame argument.  A df is Null or a    *)
(* record of the columns close, high and low, all of one length, plus the  *)
(* set of columns that hold a cell astype(float) cannot convert.           *)
(***************************************************************************)
\* the members numbered from zero
PatternTypeZeroBased ==
    ("SINGLE_UP" :> 0) @@ ("SINGLE_DOWN" :> 1) @@ ("ASC_TRIANGLE" :> 2) @@
    ("DESC_TRIANGLE" :> 3) @@ ("SYM_TRIANGLE" :> 4) @@ ("CUP_HANDLE" :> 5) @@
    ("HEAD_SHOULDER_TOP" :> 6) @@ ("HEAD_SHOULDER_BOTTOM" :> 7) @@ ("ROUND_TOP" :> 8) @@
    ("ROUND_BOTTOM" :> 9) @@ ("ASC_WEDGE" :> 11) @@ ("DESC_WEDGE" :> 12) @@
    ("RECTANGLE" :> 13) @@ ("OTHER" :> 10)

PatternType ==
    ("SINGLE_UP" :> 1) @@ ("SINGLE_DOWN" :> 2) @@ ("ASC_TRIANGLE" :> 3) @@
    ("DESC_TRIANGLE" :> 4) @@ ("SYM_TRIANGLE" :> 5) @@ ("CUP_HANDLE" :> 6) @@
    ("HEAD_SHOULDER_TOP" :> 7) @@ ("HEAD_SHOULDER_BOTTOM" :> 8) @@ ("ROUND_TOP" :> 9) @@
    ("ROUND_BOTTOM" :> 10) @@ ("ASC_WEDGE" :> 12) @@ ("DESC_WEDGE" :> 13) @@
    ("RECTANGLE" :> 14) @@ ("OTHER" :> 11)

Labels == DOMAIN PatternType

\* the display names, each a sequence of Unicode code points
PATTERN_NAME_MAP ==
    ("SINGLE_UP" :> <<21333, 36793, 19978, 28072>>) @@
    ("SINGLE_DOWN" :> <<21333, 36793, 19979, 36300>>) @@
    ("ASC_TRIANGLE" :> <<19978, 21319, 19977, 35282, 24418>>) @@
    ("DESC_TRIANGLE" :> <<19979, 38477, 19977, 35282, 24418>>) @@
    ("SYM_TRIANGLE" :> <<23545, 31216, 19977, 35282, 24418>>) @@
    ("CUP_HANDLE" :> <<26479, 29366, 24102, 26564>>) @@
    ("HEAD_SHOULDER_TOP" :> <<22836, 32937, 39030>>) @@
    ("HEAD_SHOULDER_BOTTOM" :> <<22836, 32937, 24213>>) @@
    ("ROUND_TOP" :> <<22278, 24359, 39030>>) @@
    ("ROUND_BOTTOM" :> <<22278, 24359, 24213>>) @@
    ("ASC_WEDGE" :> <<19978, 21319, 26964, 24418>>) @@
    ("DESC_WEDGE" :> <<19979, 38477, 26964, 24418>>) @@
    ("RECTANGLE" :> <<30697, 24418, 65288, 31665, 20307, 65289>>) @@
    ("OTHER" :> <<20854, 20182, 24418, 24577>>)

\* bool(x) of an Optional[PatternType]
Truthy(x) == x # None /\ PatternType[x] # 0

ValueError == [exception |-> "ValueError"]

DataFrame(close, high, low) == [close |-> close, high |-> high, low |-> low, nonnumeric |-> {}]

\* len(df)
Length(df) == Len(df.close)

\* df is None or df.empty
Empty(df) == df = Null \/ Length(df) = 0

\* the largest power of two p, p, 2p, 4p, ..., below k
RECURSIVE Pow2Below(_, _)
Pow2Below(k, p) == IF 2 * p < k THEN Pow2Below(k, 2 * p) ELSE p

\* int(n * 0.7) in doubles.  The double 0.7 is 0.7 - 0.4 / 2^53, so the
\* product is 7n/10 - 0.4 n / 2^53 before it is rounded: a product that is not
\* near an integer truncates to the floor of 7n/10; for n a multiple of 10 it
\* rounds to the integer 7n/10, unless 0.4 n / 2^53 exceeds half the spacing
\* 2^e / 2^52 of the doubles below 7n/10 (2^e the largest power of two below
\* 7n/10), and then it rounds to the double below and truncates to 7n/10 - 1
\* (n = 90: 62.99999999999999).  int(n * 0.3) and int(n * 0.6) are the floors
\* of 3n/10 and 6n/10: those products never round below the integer.
IntOfSevenTenths(n) ==
    LET k == (7 * n) \div 10
    IN  IF n % 10 = 0 /\ k > 1 /\ 4 * n > 10 * Pow2Below(k, 1) THEN k - 1 ELSE k

\* max_idx < int(n * 0.3) or max_idx > int(n * 0.6) is false
CupTopInPlace(n, max_idx) == (3 * n) \div 10 <= max_idx /\ max_idx <= (6 * n) \div 10

\* int(max(n * 0.7, max_idx + n // 10)): the integer max_idx + n // 10 when it
\* is greater than the double n * 0.7, else the double truncated
CupEnd(n, max_idx) ==
    IF max_idx + n \div 10 > IntOfSevenTenths(n) THEN max_idx + n \div 10
    ELSE IntOfSevenTenths(n)

\* min(n, handle_start + n // 8)
HandleEnd(n, handle_start) ==
    IF handle_start + n \div 8 < n THEN handle_start + n \div 8 ELSE n

\* the unguarded and guarded ratios the detectors share
total_return(closes) == FDiv(closes[Len(closes)] - closes[1], closes[1])

up_ratio(closes, default) ==
    IF Len(closes) > 1 THEN Q(UpDays(closes), Len(closes) - 1) ELSE default

max_drawdown(closes) ==
    IF Max(closes) > 0 THEN Q(Max(closes) - Min(closes), Max(closes)) ELSE QInt(0)

recent_return(closes) ==
    LET n             == Len(closes)
        recent_start  == IntOfSevenTenths(n)
        recent_closes == Slice(closes, recent_start, n)
    IN  IF Len(recent_closes) > 1
        THEN FDiv(recent_closes[Len(recent_closes)] - recent_closes[1], recent_closes[1])
        ELSE QInt(0)

\* (early_range - late_range) / (early_range + 1e-8) over the first and last thirds
convergence_ratio(highs, lows) ==
    LET n           == Len(highs)
        k           == n \div 3
        early_range == QSub(Mean(Slice(highs, 0, k)), Mean(Slice(lows, 0, k)))
        late_range  == QSub(Mean(Slice(highs, n - k, n)), Mean(Slice(lows, n - k, n)))
    IN  QDiv(QSub(early_range, late_range), QAdd(early_range, EPS))

(***************************************************************************)
(* extract_features: Null below 10 bars, ValueError when a column does not *)
(* convert to float, else the nine statistics.                             *)
(***************************************************************************)
\* slope.den * (closes[i] - (slope * x + closes[0])) for bar x = i - 1
Detrended(closes, slope, i) ==
    ZAdd(ZMul(<<1, slope.den>>, Z(closes[i] - closes[1])), ZNeg(ZMul(slope.num, Z(i - 1))))

\* the sums over bars lo .. hi, by halves (the order of a sum is immaterial)
RECURSIVE DetrendedSum(_, _, _, _)
DetrendedSum(closes, slope, lo, hi) ==
    IF lo = hi THEN Detrended(closes, slope, lo)
    ELSE LET mid == (lo + hi) \div 2
         IN  ZAdd(DetrendedSum(closes, slope, lo, mid), DetrendedSum(closes, slope, mid + 1, hi))

RECURSIVE DetrendedSumSq(_, _, _, _)
DetrendedSumSq(closes, slope, lo, hi) ==
    IF lo = hi THEN ZMul(Detrended(closes, slope, lo), Detrended(closes, slope, lo))
    ELSE LET mid == (lo + hi) \div 2
         IN  ZAdd(DetrendedSumSq(closes, slope, lo, mid),
                  DetrendedSumSq(closes, slope, mid + 1, hi))

\* the population variance of closes - (slope * x + closes[0])
DetrendedVariance(closes) ==
    LET n     == Len(closes)
        slope == Slope(closes)
        sum   == DetrendedSum(closes, slope, 1, n)
    IN  [num |-> ZAdd(ZMul(Z(n), DetrendedSumSq(closes, slope, 1, n)), ZNeg(ZMul(sum, sum))),
         den |-> NMul(N(n * n), NMul(slope.den, slope.den))]

\* the guard with the comparison off by one
InsufficientDataLe(df) == Empty(df) \/ Length(df) <= 10

\* df is None or df.empty or len(df) < 10
InsufficientData(df) == Empty(df) \/ Length(df) < 10

extract_features(df) ==
    IF InsufficientData(df) THEN Null
    ELSE IF df.nonnumeric # {} THEN ValueError
    ELSE
    LET closes         == df.close
        n              == Len(closes)
        mean_close     == Mean(closes)
        guarded        == QAdd(mean_close, EPS)
        window         == IF n \div 20 > 3 THEN n \div 20 ELSE 3
        peak_indices   == ArgRelExtrema(closes, TRUE, window)
        valley_indices == ArgRelExtrema(closes, FALSE, window)
        first_half     == Slice(closes, 0, n \div 2)
        second_half    == Slice(closes, n \div 2, n)
    IN  [trend_slope         |-> QDiv(Slope(closes), guarded),
         volatility          |-> Root(QDiv(Variance(closes), QMul(guarded, guarded))),
         price_range         |-> QDiv(QInt(Max(closes) - Min(closes)), guarded),
         peak_count          |-> Len(peak_indices),
         valley_count        |-> Len(valley_indices),
         peak_ratio          |-> IF Len(peak_indices) > 0
                                 THEN QDiv(QInt(Max(Take(closes, peak_indices))), guarded)
                                 ELSE QInt(0),
         valley_ratio        |-> IF Len(valley_indices) > 0
                                 THEN QDiv(QInt(Min(Take(closes, valley_indices))), guarded)
                                 ELSE QInt(0),
         symmetry_score      |-> QSub(QInt(1),
                                      QDiv(QAbs(QSub(Mean(first_half), Mean(second_half))),
                                           guarded)),
         \* 1 - std_detrended / (std_close + 1e-8), kept as its two operands
         consolidation_ratio |-> [std_detrended |-> Root(DetrendedVariance(closes)),
                                  std_close     |-> Root(Variance(closes))]]

(***************************************************************************)
(* The detectors.  Each returns None or a PatternType member.              *)
(***************************************************************************)
Unusable(df, features) == features = Null \/ Empty(df)

\* the policy without the recent-momentum condition
SingleUpNoRecent(closes) ==
    LET tr == total_return(closes)
        ns == NormalizedSlope(closes)
        ur == up_ratio(closes, QInt(0))
    IN  \/ /\ FGt(tr, Q(8, 100))
           /\ QGt(ns, Q(2, 100))
           /\ QLt(max_drawdown(closes), Q(50, 100))
           /\ QGt(ur, Q(45, 100))
        \/ /\ FGt(tr, Q(15, 100))
           /\ QGt(ns, Q(15, 1000))
           /\ QGt(ur, Q(40, 100))
        \/ /\ FGt(tr, Q(25, 100))
           /\ QGt(ns, Q(1, 100))
           /\ QGt(ur, Q(35, 100))

SingleUp(closes) ==
    LET tr == total_return(closes)
        ns == NormalizedSlope(closes)
        ur == up_ratio(closes, QInt(0))
    IN  \/ /\ FGt(tr, Q(8, 100))
           /\ QGt(ns, Q(2, 100))
           /\ QLt(max_drawdown(closes), Q(50, 100))
           /\ QGt(ur, Q(45, 100))
        \/ /\ FGt(tr, Q(15, 100))
           /\ QGt(ns, Q(15, 1000))
           /\ QGt(ur, Q(40, 100))
        \/ /\ FGt(recent_return(closes), Q(10, 100))
           /\ FGt(tr, Q(5, 100))
           /\ QGt(ns, Q(1, 100))
           /\ QGt(ur, Q(45, 100))
        \/ /\ FGt(tr, Q(25, 100))
           /\ QGt(ns, Q(1, 100))
           /\ QGt(ur, Q(35, 100))

\* the policy with counterparts of condition3 and condition4
SingleDownMirrored(closes) ==
    LET tr == total_return(closes)
        ns == NormalizedSlope(closes)
        ur == up_ratio(closes, QInt(0))
    IN  \/ /\ FLt(tr, Q(-8, 100))
           /\ QLt(ns, Q(-2, 100))
           /\ QLt(max_drawdown(closes), Q(50, 100))
           /\ QLt(ur, Q(45, 100))
        \/ /\ FLt(tr, Q(-15, 100))
           /\ QLt(ns, Q(-15, 1000))
           /\ QLt(ur, Q(40, 100))
        \/ /\ FLt(recent_return(closes), Q(-10, 100))
           /\ FLt(tr, Q(-5, 100))
           /\ QLt(ns, Q(-1, 100))
           /\ QLt(ur, Q(55, 100))
        \/ /\ FLt(tr, Q(-25, 100))
           /\ QLt(ns, Q(-1, 100))
           /\ QLt(ur, Q(65, 100))

SingleDown(closes) ==
    LET tr == total_return(closes)
        ns == NormalizedSlope(closes)
        ur == up_ratio(closes, QInt(0))
    IN  \/ /\ FLt(tr, Q(-8, 100))
           /\ QLt(ns, Q(-2, 100))
           /\ QLt(max_drawdown(closes), Q(50, 100))
           /\ QLt(ur, Q(45, 100))
        \/ /\ FLt(tr, Q(-15, 100))
           /\ QLt(ns, Q(-15, 1000))
           /\ QLt(ur, Q(40, 100))

detect_single_trend(df, features) ==
    IF Unusable(df, features) THEN None
    ELSE IF SingleUp(df.close) THEN "SINGLE_UP"
    ELSE IF SingleDown(df.close) THEN "SINGLE_DOWN"
    ELSE None

\* the two early returns that exclude a single trend from the triangles
TriangleTrendGuard(closes) ==
    /\ FGt(FAbs(total_return(closes)), Q(8, 100))
    /\ QGt(QAbs(NormalizedSlope(closes)), Q(15, 1000))

\* the band test with its two bounds joined by `and`
TriangleBiasGuardAnd(closes) ==
    LET ur == up_ratio(closes, Q(1, 2))
    IN  QGt(ur, Q(55, 100)) /\ QLt(ur, Q(45, 100))

TriangleBiasGuard(closes) ==
    LET ur == up_ratio(closes, Q(1, 2))
    IN  QGt(ur, Q(55, 100)) \/ QLt(ur, Q(45, 100))

\* the symmetric triangle tested first
detect_triangle_sym_first(df, features) ==
    IF Unusable(df, features) THEN None
    ELSE IF TriangleTrendGuard(df.close) THEN None
    ELSE IF TriangleBiasGuard(df.close) THEN None
    ELSE
    LET high_slope == NormalizedSlope(df.high)
        low_slope  == NormalizedSlope(df.low)
        cr         == convergence_ratio(df.high, df.low)
        converging == QGt(cr, Q(20, 100))
    IN  IF QLt(cr, Q(20, 100)) THEN None
        ELSE IF QLt(QAbs(high_slope), Q(3, 100)) /\ QLt(QAbs(low_slope), Q(3, 100)) /\ converging
             THEN "SYM_TRIANGLE"
        ELSE IF QLt(QAbs(high_slope), Q(3, 100)) /\ QGt(low_slope, Q(2, 100)) /\ converging
             THEN "ASC_TRIANGLE"
        ELSE IF QLt(high_slope, Q(-2, 100)) /\ QLt(QAbs(low_slope), Q(3, 100)) /\ converging
             THEN "DESC_TRIANGLE"
        ELSE None

detect_triangle(df, features) ==
    IF Unusable(df, features) THEN None
    ELSE IF TriangleTrendGuard(df.close) THEN None
    ELSE IF TriangleBiasGuard(df.close) THEN None
    ELSE
    LET high_slope == NormalizedSlope(df.high)
        low_slope  == NormalizedSlope(df.low)
        cr         == convergence_ratio(df.high, df.low)
        converging == QGt(cr, Q(20, 100))
    IN  IF QLt(cr, Q(20, 100)) THEN None
        ELSE IF QLt(QAbs(high_slope), Q(3, 100)) /\ QGt(low_slope, Q(2, 100)) /\ converging
             THEN "ASC_TRIANGLE"
        ELSE IF QLt(high_slope, Q(-2, 100)) /\ QLt(QAbs(low_slope), Q(3, 100)) /\ converging
             THEN "DESC_TRIANGLE"
        ELSE IF QLt(QAbs(high_slope), Q(3, 100)) /\ QLt(QAbs(low_slope), Q(3, 100)) /\ converging
             THEN "SYM_TRIANGLE"
        ELSE None

\* a handle of more than 5 bars
detect_cup_handle_long_handle(df, features) ==
    IF Unusable(df, features) THEN None
    ELSE
    LET closes  == df.close
        n       == Len(closes)
        max_idx == ArgMax(closes)
        cup_end == CupEnd(n, max_idx)
        cup_closes == Slice(closes, 0, cup_end)
        cup_max    == Max(cup_closes)
        cup_depth  == QDiv(QInt(cup_max - Min(cup_closes)), QAdd(QInt(cup_max), EPS))
        handle_start == cup_end
        handle_end   == HandleEnd(n, handle_start)
        handle_data  == Slice(closes, handle_start, handle_end)
        handle_range == QDiv(QInt(Max(handle_data) - Min(handle_data)),
                             QAdd(QInt(cup_max), EPS))
    IN  IF n < 40 THEN None
        ELSE IF ~CupTopInPlace(n, max_idx) THEN None
        ELSE IF QLt(cup_depth, Q(15, 100)) \/ QGt(cup_depth, Q(5, 10)) THEN None
        ELSE IF handle_end - handle_start <= 5 THEN None
        ELSE IF QLt(handle_range, Q(2, 100)) \/ QGt(handle_range, Q(1, 10)) THEN None
        ELSE "CUP_HANDLE"

detect_cup_handle(df, features) ==
    IF Unusable(df, features) THEN None
    ELSE
    LET closes  == df.close
        n       == Len(closes)
        max_idx == ArgMax(closes)
        cup_end == CupEnd(n, max_idx)
        cup_closes == Slice(closes, 0, cup_end)
        cup_max    == Max(cup_closes)
        cup_depth  == QDiv(QInt(cup_max - Min(cup_closes)), QAdd(QInt(cup_max), EPS))
        handle_start == cup_end
        handle_end   == HandleEnd(n, handle_start)
        handle_data  == Slice(closes, handle_start, handle_end)
        handle_range == QDiv(QInt(Max(handle_data) - Min(handle_data)),
                             QAdd(QInt(cup_max), EPS))
    IN  IF n < 40 THEN None
        ELSE IF ~CupTopInPlace(n, max_idx) THEN None
        ELSE IF QLt(cup_depth, Q(15, 100)) \/ QGt(cup_depth, Q(5, 10)) THEN None
        ELSE IF handle_end - handle_start < 5 THEN None
        ELSE IF QLt(handle_range, Q(2, 100)) \/ QGt(handle_range, Q(1, 10)) THEN None
        ELSE "CUP_HANDLE"

\* the three selected extrema have strictly decreasing time indices
DecreasingTimes(times, sorted_idx) ==
    /\ times[sorted_idx[1]] > times[sorted_idx[2]]
    /\ times[sorted_idx[2]] > times[sorted_idx[3]]

detect_head_shoulder(df, features) ==
    IF Unusable(df, features) THEN None
    ELSE
    LET closes         == df.close
        n              == Len(closes)
        window         == IF n \div 15 > 3 THEN n \div 15 ELSE 3
        peak_indices   == ArgRelExtrema(closes, TRUE, window)
        valley_indices == ArgRelExtrema(closes, FALSE, window)
        peaks          == Take(closes, peak_indices)
        valleys        == Take(closes, valley_indices)
    IN  IF n < 30 THEN None
        ELSE IF Len(peak_indices) < 3 \/ Len(valley_indices) < 2 THEN None
        ELSE IF Len(peaks) >= 3 /\ DecreasingTimes(peak_indices, ArgSort3(peaks, TRUE))
             THEN "HEAD_SHOULDER_TOP"
        ELSE IF Len(valleys) >= 3 /\ DecreasingTimes(valley_indices, ArgSort3(valleys, FALSE))
             THEN "HEAD_SHOULDER_BOTTOM"
        ELSE None

\* quad_coeff / (np.mean(closes) + 1e-8) * n * n
normalized_quad(closes) ==
    QMul(QDiv(QuadCoeff(closes), QAdd(Mean(closes), EPS)), QInt(Len(closes) * Len(closes)))

\* the round pattern without the minimum length
detect_round_pattern_any_length(df, features) ==
    IF Unusable(df, features) THEN None
    ELSE IF RootGt(features.volatility, Q(2, 10)) THEN None
    ELSE
    LET nq == normalized_quad(df.close)
    IN  IF QLt(nq, Q(-1, 1000)) /\ QGt(features.symmetry_score, Q(8, 10)) THEN "ROUND_TOP"
        ELSE IF QGt(nq, Q(1, 1000)) /\ QGt(features.symmetry_score, Q(8, 10)) THEN "ROUND_BOTTOM"
        ELSE None

\* the round pattern without the volatility test
detect_round_pattern_any_volatility(df, features) ==
    IF Unusable(df, features) THEN None
    ELSE IF Length(df) < 30 THEN None
    ELSE
    LET nq == normalized_quad(df.close)
    IN  IF QLt(nq, Q(-1, 1000)) /\ QGt(features.symmetry_score, Q(8, 10)) THEN "ROUND_TOP"
        ELSE IF QGt(nq, Q(1, 1000)) /\ QGt(features.symmetry_score, Q(8, 10)) THEN "ROUND_BOTTOM"
        ELSE None

detect_round_pattern(df, features) ==
    IF Unusable(df, features) THEN None
    ELSE IF Length(df) < 30 THEN None
    ELSE IF RootGt(features.volatility, Q(2, 10)) THEN None
    ELSE
    LET nq == normalized_quad(df.close)
    IN  IF QLt(nq, Q(-1, 1000)) /\ QGt(features.symmetry_score, Q(8, 10)) THEN "ROUND_TOP"
        ELSE IF QGt(nq, Q(1, 1000)) /\ QGt(features.symmetry_score, Q(8, 10)) THEN "ROUND_BOTTOM"
        ELSE None

\* the wedge with the convergence threshold of the triangle
detect_wedge_at_triangle_threshold(df, features) ==
    IF Unusable(df, features) THEN None
    ELSE IF Length(df) < 20 THEN None
    ELSE
    LET high_slope == NormalizedSlope(df.high)
        low_slope  == NormalizedSlope(df.low)
        cr         == convergence_ratio(df.high, df.low)
        converging == QGt(cr, Q(20, 100))
    IN  IF QLt(cr, Q(20, 100)) THEN None
        ELSE IF /\ QGt(high_slope, Q(1, 100)) /\ QGt(low_slope, Q(1, 100))
                /\ QLt(high_slope, low_slope) /\ converging
             THEN "ASC_WEDGE"
        ELSE IF /\ QLt(high_slope, Q(-1, 100)) /\ QLt(low_slope, Q(-1, 100))
                /\ QLt(QAbs(low_slope), QAbs(high_slope)) /\ converging
             THEN "DESC_WEDGE"
        ELSE None

detect_wedge(df, features) ==
    IF Unusable(df, features) THEN None
    ELSE IF Length(df) < 20 THEN None
    ELSE
    LET high_slope == NormalizedSlope(df.high)
        low_slope  == NormalizedSlope(df.low)
        cr         == convergence_ratio(df.high, df.low)
        converging == QGt(cr, Q(15, 100))
    IN  IF QLt(cr, Q(15, 100)) THEN None
        ELSE IF /\ QGt(high_slope, Q(1, 100)) /\ QGt(low_slope, Q(1, 100))
                /\ QLt(high_slope, low_slope) /\ converging
             THEN "ASC_WEDGE"
        ELSE IF /\ QLt(high_slope, Q(-1, 100)) /\ QLt(low_slope, Q(-1, 100))
                /\ QLt(QAbs(low_slope), QAbs(high_slope)) /\ converging
             THEN "DESC_WEDGE"
        ELSE None

\* the in-range test with >= in place of >
detect_rectangle_at_least(df, features) ==
    IF Unusable(df, features) THEN None
    ELSE IF Length(df) < 20 THEN None
    ELSE
    LET closes      == df.close
        n           == Len(closes)
        guarded     == QAdd(Mean(closes), EPS)
        upper_bound == Percentile(df.high, 90)
        lower_bound == Percentile(df.low, 10)
        in_range    == Cardinality({i \in 1 .. n : /\ QGe(QInt(closes[i]), lower_bound)
                                                   /\ QLe(QInt(closes[i]), upper_bound)})
        volatility  == Root(QDiv(Variance(closes), QMul(guarded, guarded)))
    IN  IF /\ QGe(Q(in_range, n), Q(70, 100))
           /\ QLt(QAbs(QDiv(Slope(closes), guarded)), Q(1, 100))
           /\ QLt(QAbs(NormalizedSlope(df.high)), Q(15, 1000))
           /\ QLt(QAbs(NormalizedSlope(df.low)), Q(15, 1000))
           /\ RootGt(volatility, Q(5, 100))
           /\ RootLt(volatility, Q(25, 100))
        THEN "RECTANGLE"
        ELSE None

detect_rectangle(df, features) ==
    IF Unusable(df, features) THEN None
    ELSE IF Length(df) < 20 THEN None
    ELSE
    LET closes      == df.close
        n           == Len(closes)
        guarded     == QAdd(Mean(closes), EPS)
        upper_bound == Percentile(df.high, 90)
        lower_bound == Percentile(df.low, 10)
        in_range    == Cardinality({i \in 1 .. n : /\ QGe(QInt(closes[i]), lower_bound)
                                                   /\ QLe(QInt(closes[i]), upper_bound)})
        volatility  == Root(QDiv(Variance(closes), QMul(guarded, guarded)))
    IN  IF /\ QGt(Q(in_range, n), Q(70, 100))
           /\ QLt(QAbs(QDiv(Slope(closes), guarded)), Q(1, 100))
           /\ QLt(QAbs(NormalizedSlope(df.high)), Q(15, 1000))
           /\ QLt(QAbs(NormalizedSlope(df.low)), Q(15, 1000))
           /\ RootGt(volatility, Q(5, 100))
           /\ RootLt(volatility, Q(25, 100))
        THEN "RECTANGLE"
        ELSE None

(***************************************************************************)
(* The price series the calls are made on: synthetic shapes of closes with *)
(* an envelope of highs above and lows below them.                         *)
(***************************************************************************)
\* n bars on the line from s to e
Lin(n, s, e) == [i \in 1 .. n |-> IF n = 1 THEN s ELSE s + ((e - s) * (i - 1)) \div (n - 1)]

\* n bars through the breakpoints pts = << <<bar, value>>, ... >> (0-based bars)
PL(pts, n) ==
    [i \in 1 .. n |->
        LET k == CHOOSE j \in 1 .. (Len(pts) - 1) :
                     /\ pts[j][1] <= i - 1 /\ i - 1 <= pts[j + 1][1]
                     /\ \A h \in 1 .. (j - 1) : ~(pts[h][1] <= i - 1 /\ i - 1 <= pts[h + 1][1])
            a == pts[k]
            b == pts[k + 1]
        IN  a[2] + ((b[2] - a[2]) * (i - 1 - a[1])) \div (b[1] - a[1])]

\* a staircase: every `every`-th bar moves by big, every other bar by small
Steps(n, base, every, big, small) ==
    [i \in 1 .. n |-> base + big * ((i - 1) \div every) + small * ((i - 1) - (i - 1) \div every)]

\* a square wave of runs of `run` bars between base and base + amp
Zig(n, base, amp, run) == [i \in 1 .. n |-> base + amp * (((i - 1) \div run) % 2)]

\* a parabolic arch (sign = 1) or bowl (sign = -1)
Arc(n, base, sign, flatness) ==
    [i \in 1 .. n |-> base + sign * (((i - 1) * (n - i)) \div flatness)]

\* 100.0 growing by 1% per bar for 60 bars: round(1000 * 1.01^i), i = 0 .. 59
Geo60 ==
    <<1000, 1010, 1020, 1030, 1041, 1051, 1062, 1072, 1083, 1094,
      1105, 1116, 1127, 1138, 1149, 1161, 1173, 1184, 1196, 1208,
      1220, 1232, 1245, 1257, 1270, 1282, 1295, 1308, 1321, 1335,
      1348, 1361, 1375, 1389, 1403, 1417, 1431, 1445, 1460, 1474,
      1489, 1504, 1519, 1534, 1549, 1565, 1580, 1596, 1612, 1628,
      1645, 1661, 1678, 1694, 1711, 1729, 1746, 1763, 1781, 1799>>

\* 50 bars: 100 down to 75 over bars 0-20, back to 100 over bars 20-35, a
\* pullback to 96.5 over bars 35-42, then level
Cup50 == PL(<< <<0, 1000>>, <<20, 750>>, <<35, 1000>>, <<42, 965>>, <<49, 965>> >>, 50)

\* highs s0 .. s1 above the closes and lows t0 .. t1 below them
Env(closes, e) ==
    LET n == Len(closes)
    IN  DataFrame(closes,
                  [i \in 1 .. n |-> closes[i] + Lin(n, e[1], e[2])[i]],
                  [i \in 1 .. n |-> closes[i] - Lin(n, e[3], e[4])[i]])

EnvFlat == <<20, 20, 20, 20>>

EnvConv == <<60, 10, 60, 10>>

EnvDiv == <<10, 60, 10, 60>>

EnvZero == <<0, 0, 0, 0>>

EnvAsc == <<50, 50, 400, 20>>

EnvDesc == <<600, 20, 50, 50>>

EnvSkew == <<20, 20, 500, 200>>

\* the first k bars of a df
FirstBars(df, k) ==
    [close |-> SubSeq(df.close, 1, k), high |-> SubSeq(df.high, 1, k),
     low |-> SubSeq(df.low, 1, k), nonnumeric |-> df.nonnumeric]

\* a df whose close column holds a cell that is not a number
Corrupt(df) == [df EXCEPT !.nonnumeric = {"close"}]

Up20 == Lin(20, 1000, 1570)

Down20 == Lin(20, 1600, 1030)

SlowUp20 == Lin(20, 1000, 1190)

SlowUp30 == Lin(30, 1000, 1145)

Zig20 == Zig(20, 1000, 40, 1)

Box20 == Zig(20, 900, 200, 1)

Box60 == Zig(60, 950, 100, 3)

Stair21 == Steps(21, 1000, 3, 80, -10)

StairDown21 == Steps(21, 1600, 3, -80, 10)

AltDown20 == Steps(20, 1600, 2, 10, -60)

Mount40 == PL(<< <<0, 800>>, <<18, 1100>>, <<39, 960>> >>, 40)

Peak40 == PL(<< <<0, 700>>, <<14, 1100>>, <<39, 900>> >>, 40)

Ridge40 == PL(<< <<0, 700>>, <<18, 1100>>, <<39, 900>> >>, 40)

Arch30 == Arc(30, 1000, 1, 5)

Bowl30 == Arc(30, 1050, -1, 5)

\* three peaks rising in time, falling in time, and with the tallest in the middle
RisingPeaks30 ==
    PL(<< <<0, 1000>>, <<4, 1040>>, <<8, 1000>>, <<12, 1060>>, <<16, 1000>>,
          <<20, 1080>>, <<24, 1000>>, <<29, 1010>> >>, 30)

FallingValleys30 ==
    PL(<< <<0, 1050>>, <<4, 1060>>, <<8, 1000>>, <<12, 1040>>, <<16, 980>>,
          <<20, 1020>>, <<24, 960>>, <<29, 970>> >>, 30)

MiddleHead30 ==
    PL(<< <<0, 1000>>, <<4, 1040>>, <<8, 1000>>, <<12, 1080>>, <<16, 1000>>,
          <<20, 1040>>, <<24, 1000>>, <<29, 1010>> >>, 30)

Plateau30 == PL(<< <<0, 1000>>, <<11, 1000>>, <<12, 1300>>, <<29, 1300>> >>, 30)

ZeroFirst20 == <<0>> \o Lin(19, 1000, 1180)

\* closes, highs and lows on three lines of their own: a slow rise between
\* converging bounds
Channel20 == DataFrame(Lin(20, 915, 1085), Lin(20, 980, 1200), Lin(20, 800, 1060))

\* series that meet exactly one of the conditions of detect_single_trend:
\* condition1, condition2, condition3, condition4, down_condition1 and
\* down_condition2 in this order; LateSlide20 is LateRally20 falling
Rebound20 == PL(<< <<0, 1500>>, <<1, 1000>>, <<12, 1650>>, <<19, 1700>> >>, 20)

Recover20 == PL(<< <<0, 1150>>, <<1, 1000>>, <<19, 1380>> >>, 20)

LateRally20 == PL(<< <<0, 1000>>, <<13, 1090>>, <<19, 1240>> >>, 20)

Ratchet20 == Slice(Steps(22, 1000, 3, 80, -10), 2, 22)

Slump20 == PL(<< <<0, 1000>>, <<1, 1400>>, <<19, 860>> >>, 20)

SlowDown20 == Lin(20, 1380, 1000)

LateSlide20 == PL(<< <<0, 1270>>, <<13, 1150>>, <<19, 1000>> >>, 20)

TrendSeries ==
    {Env(c, EnvFlat) :
        c \in {Rebound20, Recover20, LateRally20, Ratchet20, Slump20, SlowDown20, LateSlide20}}

\* closes that leave the band between flat highs and lows on some bars:
\* 1200 on the bars of ups, 800 on the bars of downs (0-based), 1000 elsewhere
Spiked20(ups, downs) ==
    DataFrame([i \in 1 .. 20 |-> IF i - 1 \in ups THEN 1200
                                ELSE IF i - 1 \in downs THEN 800 ELSE 1000],
              Lin(20, 1020, 1020), Lin(20, 980, 980))

\* 14 and 15 of the 20 closes inside the band
SixOut20 == Spiked20({3, 9, 16}, {4, 10, 15})

FiveOut20 == Spiked20({3, 9, 16}, {4, 15})

BandSeries == {SixOut20, FiveOut20}

\* Zig20 between highs and lows 50 away on the first ten bars and `above`
\* and `below` away on the last ten
Narrowing20(above, below) ==
    DataFrame(Zig20, [i \in 1 .. 20 |-> Zig20[i] + (IF i <= 10 THEN 50 ELSE above)],
                     [i \in 1 .. 20 |-> Zig20[i] - (IF i <= 10 THEN 50 ELSE below)])

\* falling highs over rising lows
EnvBoth == <<600, 20, 400, 20>>

\* a range that narrows by exactly 20% and by 21%, and a series that meets
\* the slope conditions of all three triangles
TriangleSeries == {Narrowing20(40, 40), Narrowing20(40, 39), Env(Zig20, EnvBoth)}

\* 40-bar cups at the limits of detect_cup_handle: a depth of exactly 50%
\* and 15%, a handle range of exactly 10% and 2% of the cup top, and the top
\* on bars 11, 12, 24 and 25
CupSeries ==
    {Env(c, EnvFlat) :
        c \in {PL(<< <<0, 500>>, <<14, 1000>>, <<39, 800>> >>, 40),
               PL(<< <<0, 850>>, <<14, 1000>>, <<39, 800>> >>, 40),
               PL(<< <<0, 700>>, <<14, 1000>>, <<28, 950>>, <<32, 850>>, <<39, 850>> >>, 40),
               PL(<< <<0, 700>>, <<14, 1000>>, <<28, 950>>, <<32, 930>>, <<39, 930>> >>, 40),
               PL(<< <<0, 700>>, <<11, 1100>>, <<39, 876>> >>, 40),
               PL(<< <<0, 700>>, <<12, 1100>>, <<39, 884>> >>, 40),
               PL(<< <<0, 700>>, <<24, 1100>>, <<39, 980>> >>, 40),
               PL(<< <<0, 700>>, <<25, 1100>>, <<39, 988>> >>, 40)}}

\* three falling valleys with only two peaks between them, and three rising
\* one-bar peaks on a flat floor, which has no local minimum
ValleysOnly30 ==
    PL(<< <<0, 1060>>, <<8, 1000>>, <<12, 1040>>, <<16, 980>>, <<20, 1020>>, <<24, 960>>,
          <<29, 970>> >>, 30)

Spikes30 ==
    [i \in 1 .. 30 |-> IF i = 7 THEN 1040 ELSE IF i = 14 THEN 1060 ELSE IF i = 21 THEN 1080
                       ELSE 1000]

ExtremaSeries == {Env(ValleysOnly30, EnvFlat), Env(Spikes30, EnvFlat)}

\* arcs as tall as their base: symmetric, curved, and with a volatility above 0.2
SteepArch30 == Arc(30, 100, 1, 1)

SteepBowl30 == Arc(30, 400, -1, 1)

\* a curved, symmetric arch of 25 bars that no detector before the round one matches
Arch25 == Arc(25, 1000, 1, 1)

RoundSeries == {Env(SteepArch30, EnvFlat), Env(SteepBowl30, EnvFlat), Env(Arch25, EnvFlat)}

LongSeries ==
    {Env(Up20, EnvFlat), Env(Up20, EnvConv), Env(Down20, EnvFlat), Env(Down20, EnvConv),
     Env(SlowUp20, EnvFlat), Env(SlowUp20, EnvConv), Env(SlowUp30, EnvConv),
     Env(Zig20, EnvFlat), Env(Zig20, EnvConv), Env(Zig20, EnvAsc), Env(Zig20, EnvDesc),
     Env(Box20, EnvFlat), Env(Box20, EnvConv), Env(Box60, EnvFlat),
     Env(Stair21, EnvConv), Env(StairDown21, EnvConv), Env(AltDown20, EnvSkew),
     Env(Mount40, EnvFlat), Env(Peak40, EnvAsc), Env(Ridge40, EnvAsc),
     Env(Arch30, EnvFlat), Env(Arch30, EnvConv), Env(Bowl30, EnvFlat),
     Env(RisingPeaks30, EnvFlat), Env(FallingValleys30, EnvFlat), Env(MiddleHead30, EnvFlat),
     Env(Plateau30, EnvFlat), Env(Lin(20, 1000, 1000), EnvFlat),
     Env(Lin(20, 0, 0), EnvZero), Env(ZeroFirst20, EnvZero), Channel20,
     Env(Geo60, EnvFlat), Env(Geo60, EnvConv), Env(Geo60, EnvDiv), Env(Geo60, EnvZero),
     Env(Cup50, EnvFlat), Env(Cup50, EnvConv)}

ShortSeries == {FirstBars(Env(Zig20, EnvFlat), k) : k \in {0, 1, 9, 10, 19}}

CorruptSeries == {Corrupt(Env(Zig20, EnvFlat)), Corrupt(FirstBars(Env(Zig20, EnvFlat), 12))}

Series ==
    {Null} \cup ShortSeries \cup LongSeries \cup TrendSeries \cup BandSeries
           \cup TriangleSeries \cup RoundSeries \cup CorruptSeries

Modes == {"rule", "ai"}

(***************************************************************************)
(* simple_rule_pattern, classify_pattern and batch_classify as functions.  *)
(* A call that raises has the result Raised in place of a label.           *)
(***************************************************************************)
Unset == "unset"

Raised == "raise ValueError"

NoFeatures == [unset |-> TRUE]

\* the cascade with the rectangle test after the wedge test
CascadeWedgeFirst ==
    << <<"single_trend", "detect_single_trend">>,
       <<"wedge", "detect_wedge">>,
       <<"rectangle", "detect_rectangle">>,
       <<"triangle", "detect_triangle">>,
       <<"cup_handle", "detect_cup_handle">>,
       <<"head_shoulder", "detect_head_shoulder">>,
       <<"round_pattern", "detect_round_pattern">> >>

\* the cascade of simple_rule_pattern: local variable and detector, in order
Cascade ==
    << <<"single_trend", "detect_single_trend">>,
       <<"rectangle", "detect_rectangle">>,
       <<"wedge", "detect_wedge">>,
       <<"triangle", "detect_triangle">>,
       <<"cup_handle", "detect_cup_handle">>,
       <<"head_shoulder", "detect_head_shoulder">>,
       <<"round_pattern", "detect_round_pattern">> >>

Detect(detector, d, f) ==
    CASE detector = "detect_single_trend"  -> detect_single_trend(d, f)
      [] detector = "detect_rectangle"     -> detect_rectangle(d, f)
      [] detector = "detect_wedge"         -> detect_wedge(d, f)
      [] detector = "detect_triangle"      -> detect_triangle(d, f)
      [] detector = "detect_cup_handle"    -> detect_cup_handle(d, f)
      [] detector = "detect_head_shoulder" -> detect_head_shoulder(d, f)
      [] detector = "detect_round_pattern" -> detect_round_pattern(d, f)

\* falling off the end of the function
FallThroughNone == None

\* the label simple_rule_pattern returns when no detector matches
FallThrough == "OTHER"

\* the length test with the limit of extract_features
TooShortTen(d) == Empty(d) \/ Length(d) < 10

\* df is None or empty, or too short: return OTHER before any computation
TooShort(d) == Empty(d) \/ Length(d) < 20

RECURSIVE CascadeFrom(_, _, _)
CascadeFrom(d, f, k) ==
    IF k > Len(Cascade) THEN FallThrough
    ELSE LET r == Detect(Cascade[k][2], d, f)
         IN  IF Truthy(r) THEN r ELSE CascadeFrom(d, f, k + 1)

simple_rule_pattern(d) ==
    IF TooShort(d) THEN "OTHER"
    ELSE LET f == extract_features(d)
         IN  IF f = ValueError THEN Raised
             ELSE IF f = Null THEN "OTHER"
             ELSE CascadeFrom(d, f, 1)

\* the "ai" branch as a stub that knows no pattern
classify_pattern_stub(d, m) ==
    IF m = "rule" THEN simple_rule_pattern(d) ELSE "OTHER"

classify_pattern(d, m) ==
    IF m = "rule" THEN simple_rule_pattern(d) ELSE simple_rule_pattern(d)

(***************************************************************************)
(* State.  A call of classify_pattern runs simple_rule_pattern one         *)
(* detector at a time (Spec); classify_pattern is also called as a single  *)
(* step (SpecCalls), and batch_classify runs one entry at a time           *)
(* (SpecBatch).                                                            *)
(***************************************************************************)
VARIABLES
    df,         \* the argument of the running call of simple_rule_pattern
    pc,         \* "idle", "entry", "cascade", "returned" or "raised"
    features,   \* the local `features`
    locals,     \* the locals single_trend .. round_pattern
    evaluated,  \* the detectors this call has run, in order
    ret,        \* what the call returned or raised
    memo,       \* a classify_pattern call the caller has kept, or Null
    out,        \* the classify_pattern call that has just returned, or Null
    df_dict,    \* batch_classify: its argument, a sequence of <<ts_code, df>>
    mode,       \* batch_classify: its argument mode
    results,    \* batch_classify: the dict it builds
    batch_pc,   \* batch_classify: "idle", "loop", "returned" or "raised"
    frames,     \* worker pool: the call frame of each worker
    probe,      \* a detector called on its own: the call and its result, or Null
    pattern_analysis_status,  \* the status table: (ts_code, period_type) -> last_trade_date
    pattern_analysis_result,  \* the result table: its rows in the order of their insertion
    stocktradetodayinfo,      \* the trade dates of the daily bars in the database
    job,        \* the running job of incremental_jobs and its position
    _engine,    \* data_access: the global engine, an index of `engines` or 0 for None
    _engine_lock,             \* data_access: the thread that holds the lock, or 0
    engines,    \* every engine create_engine has made: "live" or "disposed"
    threads     \* the threads that call get_engine and close_all_connections

call_vars == <<df, pc, features, locals, evaluated, ret>>

batch_vars == <<df_dict, mode, results, batch_pc>>

pool_vars == <<frames>>

job_vars == <<pattern_analysis_status, pattern_analysis_result, stocktradetodayinfo, job>>

engine_vars == <<_engine, _engine_lock, engines, threads>>

vars == <<df, pc, features, locals, evaluated, ret, memo, out, df_dict, mode, results, batch_pc,
          frames, probe, pattern_analysis_status, pattern_analysis_result, stocktradetodayinfo,
          job, _engine, _engine_lock, engines, threads>>

NewFrame == [v \in {Cascade[k][1] : k \in 1 .. Len(Cascade)} |-> Unset]

\* the workers of a pool that calls simple_rule_pattern concurrently
MaxWorkers == 2

Workers == 1 .. MaxWorkers

\* no job of incremental_jobs is running
IdleJob ==
    [pc |-> "idle", kind |-> "none", ts_codes |-> <<>>, period_types |-> <<>>,
     latest_date |-> <<>>, idx |-> 0, k |-> 0, visited |-> <<>>,
     logged |-> <<>>, read_failed |-> FALSE, rows_at_start |-> 0, rows_before |-> 0,
     status_before |-> <<>>, raised_in |-> "none"]

\* the threads of a service that shares the engine of data_access
MaxThreads == 2

Threads == 1 .. MaxThreads

\* a thread that is in neither get_engine nor close_all_connections
IdleThread == [pc |-> "idle", op |-> "none", ret |-> 0, ret_disposed |-> FALSE, calls |-> 0]

\* the frame of a worker that is not in a call
IdleFrame ==
    [df |-> Null, pc |-> "idle", features |-> NoFeatures, locals |-> NewFrame,
     evaluated |-> <<>>, ret |-> Unset]

Init ==
    /\ df = Null
    /\ pc = "idle"
    /\ features = NoFeatures
    /\ locals = NewFrame
    /\ evaluated = <<>>
    /\ ret = Unset
    /\ memo = Null
    /\ out = Null
    /\ df_dict = <<>>
    /\ mode = "rule"
    /\ results = <<>>
    /\ batch_pc = "idle"
    /\ frames = [w \in Workers |-> IdleFrame]
    /\ probe = Null
    /\ pattern_analysis_status = <<>>
    /\ pattern_analysis_result = <<>>
    /\ stocktradetodayinfo = {}
    /\ job = IdleJob
    /\ _engine = 0
    /\ _engine_lock = 0
    /\ engines = <<>>
    /\ threads = [t \in Threads |-> IdleThread]

\* classify_pattern(d, m): both modes run simple_rule_pattern(d)
Call(d, m) ==
    /\ pc = "idle"
    /\ df' = d
    /\ pc' = (IF m = "rule" THEN "entry" ELSE "entry")
    /\ UNCHANGED <<features, locals, evaluated, ret, memo, out, batch_vars, pool_vars, probe, job_vars, engine_vars>>

Return(value) ==
    /\ pc' = "returned"
    /\ ret' = value

\* simple_rule_pattern up to the first detector: the early returns and
\* extract_features
Entry ==
    /\ pc = "entry"
    /\ IF TooShort(df)
       THEN Return("OTHER") /\ UNCHANGED features
       ELSE LET f == extract_features(df)
            IN  /\ features' = f
                /\ IF f = ValueError THEN pc' = "raised" /\ ret' = Raised
                   ELSE IF f = Null THEN Return("OTHER")
                   ELSE pc' = "cascade" /\ UNCHANGED ret
    /\ UNCHANGED <<df, locals, evaluated, memo, out, batch_vars, pool_vars, probe, job_vars, engine_vars>>

\* the next detector of the cascade and the `if result: return result` after it
Step ==
    /\ pc = "cascade"
    /\ Len(evaluated) < Len(Cascade)
    /\ LET stage  == Cascade[Len(evaluated) + 1]
           result == Detect(stage[2], df, features)
       IN  /\ locals' = [locals EXCEPT ![stage[1]] = result]
           /\ evaluated' = Append(evaluated, stage[2])
           /\ IF Truthy(result) THEN Return(result) ELSE UNCHANGED <<pc, ret>>
    /\ UNCHANGED <<df, features, memo, out, batch_vars, pool_vars, probe, job_vars, engine_vars>>

\* the final `return PatternType.OTHER`
ReturnOther ==
    /\ pc = "cascade"
    /\ Len(evaluated) = Len(Cascade)
    /\ Return(FallThrough)
    /\ UNCHANGED <<df, features, locals, evaluated, memo, out, batch_vars, pool_vars, probe, job_vars, engine_vars>>

\* the caller has the result (or the exception); the frame is gone
Done ==
    /\ pc \in {"returned", "raised"}
    /\ df' = Null
    /\ pc' = "idle"
    /\ features' = NoFeatures
    /\ locals' = NewFrame
    /\ evaluated' = <<>>
    /\ ret' = Unset
    /\ UNCHANGED <<memo, out, batch_vars, pool_vars, probe, job_vars, engine_vars>>

Next ==
    \/ \E d \in Series, m \in Modes : Call(d, m)
    \/ Entry
    \/ Step
    \/ ReturnOther
    \/ Done

Spec == Init /\ [][Next]_vars

(***************************************************************************)
(* classify_pattern called as one step, by a caller that may keep a        *)
(* result to compare a later call with.                                    *)
(***************************************************************************)
ApiSeries ==
    {Null} \cup ShortSeries \cup CorruptSeries
        \cup {Env(Up20, EnvFlat), Env(Zig20, EnvConv), Env(Box20, EnvFlat), Env(Arch30, EnvFlat)}

Classify(d, m) ==
    /\ out = Null
    /\ out' = [df |-> d, mode |-> m, result |-> classify_pattern(d, m)]
    /\ UNCHANGED <<memo, call_vars, batch_vars, pool_vars, probe, job_vars, engine_vars>>

\* the caller keeps the call that has just returned
Keep ==
    /\ out # Null
    /\ memo' = out
    /\ out' = Null
    /\ UNCHANGED <<call_vars, batch_vars, pool_vars, probe, job_vars, engine_vars>>

\* the caller drops it
Drop ==
    /\ out # Null
    /\ out' = Null
    /\ UNCHANGED <<memo, call_vars, batch_vars, pool_vars, probe, job_vars, engine_vars>>

NextCalls ==
    \/ \E d \in ApiSeries, m \in Modes : Classify(d, m)
    \/ Keep
    \/ Drop

SpecCalls == Init /\ [][NextCalls]_vars

(***************************************************************************)
(* batch_classify, one loop iteration per step.                            *)
(***************************************************************************)
MaxBatch == 2

TsCodes == {"000001.SZ", "600000.SH", "300750.SZ"}

BatchSeries ==
    {Null, Env(Up20, EnvFlat), Corrupt(FirstBars(Env(Zig20, EnvFlat), 12))}
        \cup {FirstBars(Env(Zig20, EnvFlat), k) : k \in {0, 9, 10}}

\* the dicts of at most MaxBatch entries, in every insertion order
Dicts ==
    UNION {{dd \in [1 .. n -> TsCodes \X BatchSeries] :
               \A i, j \in 1 .. n : i # j => dd[i][1] # dd[j][1]} : n \in 0 .. MaxBatch}

\* one tuple object shared by every entry
StoreShared(res, ts_code, pattern, feats) ==
    [c \in DOMAIN res \cup {ts_code} |-> <<pattern, feats>>]

\* results[ts_code] = (pattern, features)
Store(res, ts_code, pattern, feats) ==
    [c \in DOMAIN res \cup {ts_code} |-> IF c = ts_code THEN <<pattern, feats>> ELSE res[c]]

BatchCall(dd, m) ==
    /\ batch_pc = "idle"
    /\ df_dict' = dd
    /\ mode' = m
    /\ results' = <<>>
    /\ batch_pc' = "loop"
    /\ UNCHANGED <<memo, out, call_vars, pool_vars, probe, job_vars, engine_vars>>

\* one iteration of `for ts_code, df in df_dict.items()`
BatchBody ==
    /\ batch_pc = "loop"
    /\ Cardinality(DOMAIN results) < Len(df_dict)
    /\ \E item \in {df_dict[Cardinality(DOMAIN results) + 1]} :
       \E ts_code \in {item[1]}, d \in {item[2]} :
       \E pattern \in {classify_pattern(d, mode)}, feats \in {extract_features(d)} :
           IF pattern = Raised \/ feats = ValueError
           THEN batch_pc' = "raised" /\ UNCHANGED results
           ELSE results' = Store(results, ts_code, pattern, feats) /\ UNCHANGED batch_pc
    /\ UNCHANGED <<df_dict, mode, memo, out, call_vars, pool_vars, probe, job_vars, engine_vars>>

\* return results
BatchReturn ==
    /\ batch_pc = "loop"
    /\ Cardinality(DOMAIN results) = Len(df_dict)
    /\ batch_pc' = "returned"
    /\ UNCHANGED <<df_dict, mode, results, memo, out, call_vars, pool_vars, probe, job_vars, engine_vars>>

BatchDone ==
    /\ batch_pc \in {"returned", "raised"}
    /\ df_dict' = <<>>
    /\ mode' = "rule"
    /\ results' = <<>>
    /\ batch_pc' = "idle"
    /\ UNCHANGED <<memo, out, call_vars, pool_vars, probe, job_vars, engine_vars>>

NextBatch ==
    \/ \E dd \in Dicts, m \in Modes : BatchCall(dd, m)
    \/ BatchBody
    \/ BatchReturn
    \/ BatchDone

SpecBatch == Init /\ [][NextBatch]_vars

(***************************************************************************)
(* simple_rule_pattern called concurrently by the workers of a pool.  The  *)
(* function has no global, nonlocal or attribute assignment: df, features  *)
(* and the detector results are locals of the call, so every worker has    *)
(* its own frame, and the steps of the workers interleave freely.          *)
(***************************************************************************)
PoolSeries == {FirstBars(Env(Zig20, EnvFlat), 19), Env(Up20, EnvFlat), Env(Zig20, EnvFlat)}

\* the return value kept in one slot that all workers share
ReturnInShared(fr, w, value) ==
    [v \in DOMAIN fr |-> IF v = w THEN [fr[v] EXCEPT !.pc = "returned", !.ret = value]
                                  ELSE [fr[v] EXCEPT !.ret = value]]

\* `return value` in the call of worker w
ReturnIn(fr, w, value) == [fr EXCEPT ![w].pc = "returned", ![w].ret = value]

PoolCall(w, d) ==
    /\ frames[w].pc = "idle"
    /\ frames' = [frames EXCEPT ![w] = [IdleFrame EXCEPT !.df = d, !.pc = "entry"]]
    /\ UNCHANGED <<memo, out, call_vars, batch_vars, probe, job_vars, engine_vars>>

\* worker w: simple_rule_pattern up to the first detector
PoolEntry(w) ==
    /\ frames[w].pc = "entry"
    /\ IF TooShort(frames[w].df)
       THEN frames' = ReturnIn(frames, w, "OTHER")
       ELSE \E f \in {extract_features(frames[w].df)} :
                frames' = IF f = ValueError
                          THEN [frames EXCEPT ![w].features = f, ![w].pc = "raised",
                                              ![w].ret = Raised]
                          ELSE IF f = Null
                          THEN ReturnIn([frames EXCEPT ![w].features = f], w, "OTHER")
                          ELSE [frames EXCEPT ![w].features = f, ![w].pc = "cascade"]
    /\ UNCHANGED <<memo, out, call_vars, batch_vars, probe, job_vars, engine_vars>>

\* worker w: its next detector and the `if result: return result` after it
PoolStep(w) ==
    /\ frames[w].pc = "cascade"
    /\ Len(frames[w].evaluated) < Len(Cascade)
    /\ \E stage \in {Cascade[Len(frames[w].evaluated) + 1]} :
       \E result \in {Detect(stage[2], frames[w].df, frames[w].features)} :
       \E ran \in {[frames EXCEPT ![w].locals[stage[1]] = result,
                                  ![w].evaluated = Append(@, stage[2])]} :
           frames' = IF Truthy(result) THEN ReturnIn(ran, w, result) ELSE ran
    /\ UNCHANGED <<memo, out, call_vars, batch_vars, probe, job_vars, engine_vars>>

\* worker w: the final `return PatternType.OTHER`
PoolReturnOther(w) ==
    /\ frames[w].pc = "cascade"
    /\ Len(frames[w].evaluated) = Len(Cascade)
    /\ frames' = ReturnIn(frames, w, FallThrough)
    /\ UNCHANGED <<memo, out, call_vars, batch_vars, probe, job_vars, engine_vars>>

\* worker w hands its result over; its frame is gone
PoolDone(w) ==
    /\ frames[w].pc \in {"returned", "raised"}
    /\ frames' = [frames EXCEPT ![w] = IdleFrame]
    /\ UNCHANGED <<memo, out, call_vars, batch_vars, probe, job_vars, engine_vars>>

NextPool ==
    \/ \E w \in Workers, d \in PoolSeries : PoolCall(w, d)
    \/ \E w \in Workers : PoolEntry(w)
    \/ \E w \in Workers : PoolStep(w)
    \/ \E w \in Workers : PoolReturnOther(w)
    \/ \E w \in Workers : PoolDone(w)

SpecPool == Init /\ [][NextPool]_vars

(***************************************************************************)
(* A detector called on its own, as the module-level function it is, with  *)
(* the features of the series or with None, on a series of any length.     *)
(***************************************************************************)
Detectors == {Cascade[k][2] : k \in 1 .. Len(Cascade)}

DetectorSeries ==
    {Null} \cup ShortSeries \cup LongSeries \cup TrendSeries \cup BandSeries \cup TriangleSeries
           \cup CupSeries \cup ExtremaSeries \cup RoundSeries

DetectorCall(detector, d, f) ==
    /\ probe = Null
    /\ \E r \in {Detect(detector, d, f)} :
           probe' = [detector |-> detector, df |-> d, features |-> f, result |-> r]
    /\ UNCHANGED <<memo, out, call_vars, batch_vars, pool_vars, job_vars, engine_vars>>

\* the caller is done with the result
DetectorDone ==
    /\ probe # Null
    /\ probe' = Null
    /\ UNCHANGED <<memo, out, call_vars, batch_vars, pool_vars, job_vars, engine_vars>>

NextDetectors ==
    \/ \E detector \in Detectors, d \in DetectorSeries :
       \E f \in {extract_features(d), Null} : DetectorCall(detector, d, f)
    \/ DetectorDone

SpecDetectors == Init /\ [][NextDetectors]_vars

(***************************************************************************)
(* incremental_jobs: the status table, the result table and the jobs that  *)
(* maintain them.  A date is a day number; Optional[date] is <<>> for None *)
(* and <<d>> for the date d.                                               *)
(***************************************************************************)
\* date(2000, 1, 1), the date run_full_recalculation resets a status to
ResetDate == 0

\* the last trade date that daily bars arrive for
MaxDate == 2

\* jobs are started while the result table holds fewer rows than this
MaxRows == 3

\* the lists of stocks get_all_ts_codes and get_updated_ts_codes return
CodeLists == {<<>>, <<"000001.SZ">>, <<"000001.SZ", "600000.SH">>}

\* the lists of period types the jobs are called with
PeriodLists == {<<"3m">>, <<"3m", "6m">>}

\* the engines without the disposed ones that nothing refers to any more: a
\* job is one thread, and its references are gone when it closes the engine
Collected(es) == SelectSeq(es, LAMBDA e : e = "live")

\* get_engine as the only thread that runs: the engine is created when there is none
UseEngine ==
    /\ _engine' = (IF _engine = 0 THEN Len(engines) + 1 ELSE _engine)
    /\ engines' = (IF _engine = 0 THEN Append(engines, "live") ELSE engines)
    /\ UNCHANGED <<_engine_lock, threads>>

\* MAX(trade_date), None for no rows or a failed query
get_latest_trade_date(ok) ==
    IF ok /\ stocktradetodayinfo # {}
    THEN <<CHOOSE d \in stocktradetodayinfo : \A e \in stocktradetodayinfo : e <= d>>
    ELSE <<>>

\* the last_trade_date of the row of the pair, None for no row or a failed query
get_last_processed_date(ts_code, period_type, ok) ==
    IF ok /\ <<ts_code, period_type>> \in DOMAIN pattern_analysis_status
    THEN <<pattern_analysis_status[<<ts_code, period_type>>]>>
    ELSE <<>>

\* the skip test with a strict comparison
UpToDateStrict(last_processed, latest_date) ==
    last_processed # <<>> /\ last_processed[1] > latest_date[1]

\* last_processed and last_processed >= latest_date
UpToDate(last_processed, latest_date) ==
    last_processed # <<>> /\ last_processed[1] >= latest_date[1]

\* INSERT ... ON DUPLICATE KEY UPDATE last_trade_date
update_status(ts_code, period_type, last_trade_date) ==
    [p \in DOMAIN pattern_analysis_status \cup {<<ts_code, period_type>>} |->
        IF p = <<ts_code, period_type>> THEN last_trade_date ELSE pattern_analysis_status[p]]

\* the row save_result inserts; curr_end is the latest date (get_period_windows)
ResultRow(ts_code, period_type, latest_date) ==
    [ts_code |-> ts_code, period_type |-> period_type, curr_end |-> latest_date[1]]

\* the body of the loop of process_stock_incremental with the status written first
ProcessStepsStatusFirst == <<"classify_single_stock", "update_status", "save_result">>

\* the body of the loop of process_stock_incremental after the skip test
ProcessSteps == <<"classify_single_stock", "save_result", "update_status">>

StepAfter(step) ==
    LET n == CHOOSE i \in 1 .. Len(ProcessSteps) : ProcessSteps[i] = step
    IN  IF n < Len(ProcessSteps) THEN ProcessSteps[n + 1] ELSE "next_period"

\* the stock and the period type the job is at
TsCode == job.ts_codes[job.idx]

PeriodType == job.period_types[job.k]

\* an exception that leaves the loop of the job altogether
OnExceptionStop(j) == [j EXCEPT !.pc = "raised", !.raised_in = j.pc]

\* an exception in the work on a stock: the jobs log it and go on with the
\* next stock, a direct call of process_stock_incremental lets it out
OnException(j) ==
    IF j.kind = "stock" THEN [j EXCEPT !.pc = "raised", !.raised_in = j.pc]
    ELSE [j EXCEPT !.pc = "loop", !.raised_in = j.pc, !.logged = Append(@, j.ts_codes[j.idx])]

\* the entry of process_stock_incremental for the stock at idx, with the
\* tables as they are at this moment
ProcessEntry(j, status) ==
    [j EXCEPT !.pc = "get_last_processed_date", !.k = 1,
              !.visited = Append(@, j.ts_codes[j.idx]),
              !.read_failed = FALSE,
              !.raised_in = "none",
              !.rows_before = Len(pattern_analysis_result),
              !.status_before = status]

\* the end of one round of the loop over the period types
NextPeriod(j) ==
    IF j.k < Len(j.period_types)
    THEN [j EXCEPT !.pc = "get_last_processed_date", !.k = @ + 1]
    ELSE [j EXCEPT !.pc = "processed"]

\* the step after `step` of the loop body
Advance(j, step) ==
    IF StepAfter(step) = "next_period" THEN NextPeriod(j) ELSE [j EXCEPT !.pc = StepAfter(step)]

\* run_incremental_job and run_full_recalculation up to their loop
StartJob(kind, ts_codes, period_types, init_ok, date_ok) ==
    /\ job.pc = "idle"
    /\ Len(pattern_analysis_result) < MaxRows
    /\ \E latest_date \in {get_latest_trade_date(date_ok)} :
           job' = [IdleJob EXCEPT !.kind = kind,
                                  !.ts_codes = IF init_ok THEN ts_codes ELSE <<>>,
                                  !.period_types = period_types,
                                  !.latest_date = IF init_ok THEN latest_date ELSE <<>>,
                                  !.rows_at_start = Len(pattern_analysis_result),
                                  !.pc = IF ~init_ok THEN "raised"
                                         ELSE IF latest_date = <<>> THEN "returned"
                                         ELSE "loop"]
    /\ IF init_ok THEN UseEngine ELSE UNCHANGED engine_vars
    /\ UNCHANGED <<pattern_analysis_status, pattern_analysis_result, stocktradetodayinfo>>
    /\ UNCHANGED <<memo, out, call_vars, batch_vars, pool_vars, probe>>

run_incremental_job(ts_codes, period_types, init_ok, date_ok) ==
    StartJob("incremental", ts_codes, period_types, init_ok, date_ok)

run_full_recalculation(ts_codes, period_types, init_ok, date_ok) ==
    StartJob("full", ts_codes, period_types, init_ok, date_ok)

\* IncrementalJobManager.process_stock: process_stock_incremental without a
\* latest_date, outside any job
process_stock(ts_code, period_types, date_ok) ==
    /\ job.pc = "idle"
    /\ Len(pattern_analysis_result) < MaxRows
    /\ \E latest_date \in {get_latest_trade_date(date_ok)} :
           job' = IF latest_date = <<>>
                  THEN [IdleJob EXCEPT !.kind = "stock",
                                       !.ts_codes = <<ts_code>>, !.idx = 1,
                                       !.period_types = period_types, !.pc = "returned"]
                  ELSE ProcessEntry([IdleJob EXCEPT !.kind = "stock",
                                       !.ts_codes = <<ts_code>>, !.idx = 1,
                                       !.period_types = period_types,
                                       !.latest_date = latest_date,
                                       !.rows_at_start = Len(pattern_analysis_result)],
                                    pattern_analysis_status)
    /\ UseEngine
    /\ UNCHANGED <<pattern_analysis_status, pattern_analysis_result, stocktradetodayinfo>>
    /\ UNCHANGED <<memo, out, call_vars, batch_vars, pool_vars, probe>>

\* the head of the loop over the stocks: the next stock, or the end of the loop
NextStock ==
    /\ job.pc = "loop"
    /\ job' = IF job.idx >= Len(job.ts_codes) THEN [job EXCEPT !.pc = "close_all_connections"]
              ELSE IF job.kind = "full"
              THEN [job EXCEPT !.pc = "reset", !.idx = @ + 1, !.raised_in = "none"]
              ELSE ProcessEntry([job EXCEPT !.idx = @ + 1], pattern_analysis_status)
    /\ UNCHANGED <<pattern_analysis_status, pattern_analysis_result, stocktradetodayinfo>>
    /\ UNCHANGED <<memo, out, call_vars, batch_vars, pool_vars, probe, engine_vars>>

\* run_full_recalculation: update_status(ts_code, period_types[0], date(2000, 1, 1))
ResetStatus(ok) ==
    /\ job.pc = "reset"
    /\ IF ok
       THEN /\ pattern_analysis_status' = update_status(TsCode, job.period_types[1], ResetDate)
            /\ job' = ProcessEntry(job, update_status(TsCode, job.period_types[1], ResetDate))
       ELSE /\ job' = OnException(job)
            /\ UNCHANGED pattern_analysis_status
    /\ UNCHANGED <<pattern_analysis_result, stocktradetodayinfo>>
    /\ UNCHANGED <<memo, out, call_vars, batch_vars, pool_vars, probe, engine_vars>>

\* the skip test of process_stock_incremental
GetLastProcessedDate(ok) ==
    /\ job.pc = "get_last_processed_date"
    /\ \E last_processed \in {get_last_processed_date(TsCode, PeriodType, ok)} :
           job' = IF UpToDate(last_processed, job.latest_date)
                  THEN NextPeriod([job EXCEPT !.read_failed = @ \/ ~ok])
                  ELSE [job EXCEPT !.read_failed = @ \/ ~ok, !.pc = ProcessSteps[1]]
    /\ UseEngine
    /\ UNCHANGED <<pattern_analysis_status, pattern_analysis_result, stocktradetodayinfo>>
    /\ UNCHANGED <<memo, out, call_vars, batch_vars, pool_vars, probe>>

ClassifySingleStock(ok) ==
    /\ job.pc = "classify_single_stock"
    /\ job' = IF ok THEN Advance(job, "classify_single_stock") ELSE OnException(job)
    /\ UseEngine
    /\ UNCHANGED <<pattern_analysis_status, pattern_analysis_result, stocktradetodayinfo>>
    /\ UNCHANGED <<memo, out, call_vars, batch_vars, pool_vars, probe>>

SaveResult(ok) ==
    /\ job.pc = "save_result"
    /\ IF ok
       THEN /\ pattern_analysis_result' =
                   Append(pattern_analysis_result, ResultRow(TsCode, PeriodType, job.latest_date))
            /\ job' = Advance(job, "save_result")
       ELSE /\ job' = OnException(job)
            /\ UNCHANGED pattern_analysis_result
    /\ UNCHANGED <<pattern_analysis_status, stocktradetodayinfo>>
    /\ UNCHANGED <<memo, out, call_vars, batch_vars, pool_vars, probe, engine_vars>>

UpdateStatus(ok) ==
    /\ job.pc = "update_status"
    /\ IF ok
       THEN /\ pattern_analysis_status' = update_status(TsCode, PeriodType, job.latest_date[1])
            /\ job' = Advance(job, "update_status")
       ELSE /\ job' = OnException(job)
            /\ UNCHANGED pattern_analysis_status
    /\ UNCHANGED <<pattern_analysis_result, stocktradetodayinfo>>
    /\ UNCHANGED <<memo, out, call_vars, batch_vars, pool_vars, probe, engine_vars>>

\* process_stock_incremental has returned
ProcessReturn ==
    /\ job.pc = "processed"
    /\ job' = [job EXCEPT !.pc = IF job.kind = "stock" THEN "returned" ELSE "loop"]
    /\ UNCHANGED <<pattern_analysis_status, pattern_analysis_result, stocktradetodayinfo>>
    /\ UNCHANGED <<memo, out, call_vars, batch_vars, pool_vars, probe, engine_vars>>

\* close_all_connections at the end of a job
CloseAllConnections ==
    /\ job.pc = "close_all_connections"
    /\ job' = [job EXCEPT !.pc = "returned"]
    /\ engines' = Collected([i \in DOMAIN engines |->
                                 IF i = _engine THEN "disposed" ELSE engines[i]])
    /\ _engine' = 0
    /\ UNCHANGED <<_engine_lock, threads>>
    /\ UNCHANGED <<pattern_analysis_status, pattern_analysis_result, stocktradetodayinfo>>
    /\ UNCHANGED <<memo, out, call_vars, batch_vars, pool_vars, probe>>

JobDone ==
    /\ job.pc \in {"returned", "raised"}
    /\ job' = IdleJob
    /\ UNCHANGED <<pattern_analysis_status, pattern_analysis_result, stocktradetodayinfo>>
    /\ UNCHANGED <<memo, out, call_vars, batch_vars, pool_vars, probe, engine_vars>>

\* the daily bars of the next trade date arrive; a job reads the latest date
\* once, before its loop, so bars that arrive while it runs are bars that
\* arrive after it
NewTradeDate ==
    /\ job.pc = "idle"
    /\ Cardinality(stocktradetodayinfo) < MaxDate
    /\ stocktradetodayinfo' = stocktradetodayinfo \cup {Cardinality(stocktradetodayinfo) + 1}
    /\ UNCHANGED <<pattern_analysis_status, pattern_analysis_result, job>>
    /\ UNCHANGED <<memo, out, call_vars, batch_vars, pool_vars, probe, engine_vars>>

NextJobs ==
    \/ \E ts_codes \in CodeLists, period_types \in PeriodLists, init_ok, date_ok \in BOOLEAN :
           run_incremental_job(ts_codes, period_types, init_ok, date_ok)
    \/ \E ts_codes \in CodeLists, period_types \in PeriodLists, init_ok, date_ok \in BOOLEAN :
           run_full_recalculation(ts_codes, period_types, init_ok, date_ok)
    \/ \E ts_codes \in CodeLists \ {<<>>}, period_types \in PeriodLists, date_ok \in BOOLEAN :
           process_stock(ts_codes[1], period_types, date_ok)
    \/ NextStock
    \/ \E ok \in BOOLEAN : ResetStatus(ok)
    \/ \E ok \in BOOLEAN : GetLastProcessedDate(ok)
    \/ \E ok \in BOOLEAN : ClassifySingleStock(ok)
    \/ \E ok \in BOOLEAN : SaveResult(ok)
    \/ \E ok \in BOOLEAN : UpdateStatus(ok)
    \/ ProcessReturn
    \/ CloseAllConnections
    \/ JobDone
    \/ NewTradeDate

SpecJobs == Init /\ [][NextJobs]_vars

(***************************************************************************)
(* returns: calc_max_drawdown on the closes of a period, called on its own.*)
(***************************************************************************)
RECURSIVE QMaxTo(_, _)
QMaxTo(v, i) ==
    IF i = 1 THEN v[1] ELSE LET m == QMaxTo(v, i - 1) IN IF QGt(v[i], m) THEN v[i] ELSE m

RECURSIVE QMinTo(_, _)
QMinTo(v, i) ==
    IF i = 1 THEN v[1] ELSE LET m == QMinTo(v, i - 1) IN IF QLt(v[i], m) THEN v[i] ELSE m

\* Series.rolling(window, min_periods=1) at bar i: the last `window` bars up to i
Rolling(v, window, i) == SubSeq(v, IF i - window + 1 > 1 THEN i - window + 1 ELSE 1, i)

\* DRAWDOWN_REBOUND_CONFIG["window"]
DefaultWindow == 252

calc_max_drawdown(closes, window) ==
    IF Len(closes) < 2 THEN Null
    ELSE
    LET n           == Len(closes)
        rolling_max == [i \in 1 .. n |-> Max(Rolling(closes, window, i))]
        drawdown    == [i \in 1 .. n |-> Q(rolling_max[i] - closes[i], rolling_max[i])]
        max_dd      == [i \in 1 .. n |->
                           LET w == Rolling(drawdown, window, i) IN QMaxTo(w, Len(w))]
    IN  QMinTo(max_dd, n)

\* the longest series of closes calc_max_drawdown is called on
MaxCloses == 4

\* closes of 80.0, 90.0 and 100.0, none to MaxCloses of them
DrawdownCloses == UNION {[1 .. n -> {800, 900, 1000}] : n \in 0 .. MaxCloses}

DrawdownWindows == {2, DefaultWindow}

DrawdownCall(closes, window) ==
    /\ probe = Null
    /\ \E r \in {calc_max_drawdown(closes, window)} :
           probe' = [function |-> "calc_max_drawdown", closes |-> closes, window |-> window,
                     result |-> r]
    /\ UNCHANGED <<memo, out, call_vars, batch_vars, pool_vars, job_vars, engine_vars>>

DrawdownDone ==
    /\ probe # Null
    /\ probe' = Null
    /\ UNCHANGED <<memo, out, call_vars, batch_vars, pool_vars, job_vars, engine_vars>>

NextReturns ==
    \/ \E closes \in DrawdownCloses, window \in DrawdownWindows : DrawdownCall(closes, window)
    \/ DrawdownDone

SpecReturns == Init /\ [][NextReturns]_vars

(***************************************************************************)
(* data_access: get_engine and close_all_connections called by concurrent  *)
(* threads.  A step is one read or write of the global _engine; the lock   *)
(* is held from `with _engine_lock` to the end of its block.               *)
(***************************************************************************)
\* the calls one thread makes
MaxCalls == 2

ThreadCall(t, op, first) ==
    /\ threads[t].pc = "idle"
    /\ threads[t].calls < MaxCalls
    /\ threads' = [threads EXCEPT ![t] = [IdleThread EXCEPT !.pc = first, !.op = op,
                                                          !.calls = threads[t].calls + 1]]
    /\ UNCHANGED <<_engine, _engine_lock, engines>>
    /\ UNCHANGED <<memo, out, call_vars, batch_vars, pool_vars, probe, job_vars>>

GetEngineCall(t) == ThreadCall(t, "get_engine", "if _engine is None")

\* if _engine is None:
GetEngineCheck(t) ==
    /\ threads[t].pc = "if _engine is None"
    /\ threads' = [threads EXCEPT ![t].pc = IF _engine = 0 THEN "with _engine_lock"
                                            ELSE "return _engine"]
    /\ UNCHANGED <<_engine, _engine_lock, engines>>
    /\ UNCHANGED <<memo, out, call_vars, batch_vars, pool_vars, probe, job_vars>>

\* with _engine_lock:
GetEngineLock(t) ==
    /\ threads[t].pc = "with _engine_lock"
    /\ _engine_lock = 0
    /\ _engine_lock' = t
    /\ threads' = [threads EXCEPT ![t].pc = "locked"]
    /\ UNCHANGED <<_engine, engines>>
    /\ UNCHANGED <<memo, out, call_vars, batch_vars, pool_vars, probe, job_vars>>

\* the block under the lock: if _engine is None: _engine = create_engine(...)
GetEngineCreate(t) ==
    /\ threads[t].pc = "locked"
    /\ _engine_lock = t
    /\ IF _engine = 0
       THEN /\ engines' = Append(engines, "live")
            /\ _engine' = Len(engines) + 1
       ELSE UNCHANGED <<_engine, engines>>
    /\ _engine_lock' = 0
    /\ threads' = [threads EXCEPT ![t].pc = "return _engine"]
    /\ UNCHANGED <<memo, out, call_vars, batch_vars, pool_vars, probe, job_vars>>

\* return _engine: the global as it is at this moment
GetEngineReturn(t) ==
    /\ threads[t].pc = "return _engine"
    /\ threads' = [threads EXCEPT ![t].pc = "returned",
                                  ![t].ret = _engine,
                                  ![t].ret_disposed =
                                      IF _engine = 0 THEN FALSE
                                      ELSE engines[_engine] = "disposed"]
    /\ UNCHANGED <<_engine, _engine_lock, engines>>
    /\ UNCHANGED <<memo, out, call_vars, batch_vars, pool_vars, probe, job_vars>>

CloseCall(t) == ThreadCall(t, "close_all_connections", "if _engine is not None")

\* if _engine is not None:
CloseCheck(t) ==
    /\ threads[t].pc = "if _engine is not None"
    /\ threads' = [threads EXCEPT ![t].pc = IF _engine # 0 THEN "_engine.dispose()"
                                            ELSE "returned"]
    /\ UNCHANGED <<_engine, _engine_lock, engines>>
    /\ UNCHANGED <<memo, out, call_vars, batch_vars, pool_vars, probe, job_vars>>

\* _engine.dispose(): AttributeError when the global has become None
CloseDispose(t) ==
    /\ threads[t].pc = "_engine.dispose()"
    /\ IF _engine = 0
       THEN /\ threads' = [threads EXCEPT ![t].pc = "raised"]
            /\ UNCHANGED engines
       ELSE /\ threads' = [threads EXCEPT ![t].pc = "_engine = None"]
            /\ engines' = [engines EXCEPT ![_engine] = "disposed"]
    /\ UNCHANGED <<_engine, _engine_lock>>
    /\ UNCHANGED <<memo, out, call_vars, batch_vars, pool_vars, probe, job_vars>>

\* _engine = None
CloseAssign(t) ==
    /\ threads[t].pc = "_engine = None"
    /\ _engine' = 0
    /\ threads' = [threads EXCEPT ![t].pc = "returned"]
    /\ UNCHANGED <<_engine_lock, engines>>
    /\ UNCHANGED <<memo, out, call_vars, batch_vars, pool_vars, probe, job_vars>>

ThreadDone(t) ==
    /\ threads[t].pc \in {"returned", "raised"}
    /\ threads' = [threads EXCEPT ![t] = [IdleThread EXCEPT !.calls = threads[t].calls]]
    /\ UNCHANGED <<_engine, _engine_lock, engines>>
    /\ UNCHANGED <<memo, out, call_vars, batch_vars, pool_vars, probe, job_vars>>

NextEngine ==
    \E t \in Threads :
        \/ GetEngineCall(t)
        \/ GetEngineCheck(t)
        \/ GetEngineLock(t)
        \/ GetEngineCreate(t)
        \/ GetEngineReturn(t)
        \/ CloseCall(t)
        \/ CloseCheck(t)
        \/ CloseDispose(t)
        \/ CloseAssign(t)
        \/ ThreadDone(t)

SpecEngine == Init /\ [][NextEngine]_vars

(***************************************************************************)
(* detect_cup_handle: the extents of the cup and of the handle, which      *)
(* depend on the length n and on the bar max_idx of the highest close only.*)
(***************************************************************************)
\* the longest series whose extents are computed
MaxBars == 90

CupExtents(n, max_idx) ==
    /\ probe = Null
    /\ \E cup_end \in {CupEnd(n, max_idx)} :
           probe' = [function |-> "detect_cup_handle", n |-> n, max_idx |-> max_idx,
                     in_place |-> CupTopInPlace(n, max_idx),
                     cup_end |-> cup_end,
                     handle_start |-> cup_end,
                     handle_end |-> HandleEnd(n, cup_end)]
    /\ UNCHANGED <<memo, out, call_vars, batch_vars, pool_vars, job_vars, engine_vars>>

CupExtentsDone ==
    /\ probe # Null
    /\ probe' = Null
    /\ UNCHANGED <<memo, out, call_vars, batch_vars, pool_vars, job_vars, engine_vars>>

NextCup ==
    \/ \E n \in 40 .. MaxBars : \E max_idx \in 0 .. (n - 1) : CupExtents(n, max_idx)
    \/ CupExtentsDone

SpecCup == Init /\ [][NextCup]_vars

(***************************************************************************)
(* The claims.                                                             *)
(***************************************************************************)

\* C1 (Spec): a call on a series whose columns are numeric, of any length,
\* never raises, returns one of the 14 PatternType members, and returns after
\* at most seven detectors.
C1_Totality ==
    (pc # "idle" /\ df # Null /\ df.nonnumeric = {}) =>
        /\ pc \in {"entry", "cascade", "returned"}
        /\ pc = "returned" => ret \in Labels /\ Cardinality(Labels) = 14
        /\ Len(evaluated) <= 7

\* a one-bar series has been classified
C1_OneBarClassified ==
    pc = "returned" /\ df # Null /\ df.nonnumeric = {} /\ Len(df.close) = 1 /\ ret \in Labels

\* C2 (Spec): when the input is None, empty or shorter than 20 bars the call
\* returns OTHER, does not raise and evaluates no detector.
C2_MinimumLength ==
    (pc # "idle" /\ (df = Null \/ Len(df.close) < 20)) =>
        /\ pc \in {"entry", "returned"}
        /\ evaluated = <<>>
        /\ \A v \in DOMAIN locals : locals[v] = Unset
        /\ pc = "returned" => ret = "OTHER"

\* a 19-bar series has been answered with OTHER
C2_NineteenBars ==
    pc = "returned" /\ df # Null /\ Len(df.close) = 19 /\ ret = "OTHER"

\* C3 (Spec): for a series of at least 20 bars the detectors run in the order
\* single trend, rectangle, wedge, triangle, cup and handle, head and
\* shoulders, round; every detector before the last one run returned no
\* match, none after it has run, the call returns the first match, and it
\* returns OTHER exactly when all seven returned no match.
C3_CascadePriority ==
    (pc \in {"cascade", "returned"} /\ df # Null /\ Len(df.close) >= 20) =>
        LET order == <<"detect_single_trend", "detect_rectangle", "detect_wedge",
                       "detect_triangle", "detect_cup_handle", "detect_head_shoulder",
                       "detect_round_pattern">>
            var   == <<"single_trend", "rectangle", "wedge", "triangle", "cup_handle",
                       "head_shoulder", "round_pattern">>
            n     == Len(evaluated)
            a     == detect_single_trend(df, features)
            b     == detect_rectangle(df, features)
            c     == detect_wedge(df, features)
            d     == detect_triangle(df, features)
            e     == detect_cup_handle(df, features)
            f     == detect_head_shoulder(df, features)
            g     == detect_round_pattern(df, features)
            first == IF a # None THEN a ELSE IF b # None THEN b ELSE IF c # None THEN c
                     ELSE IF d # None THEN d ELSE IF e # None THEN e ELSE IF f # None THEN f
                     ELSE IF g # None THEN g ELSE "OTHER"
        IN  /\ n <= 7
            /\ evaluated = SubSeq(order, 1, n)
            /\ \A k \in 1 .. 7 : k < n => locals[var[k]] = None
            /\ \A k \in 1 .. 7 : k > n => locals[var[k]] = Unset
            /\ pc = "cascade" /\ n > 0 => locals[var[n]] = None
            /\ pc = "returned" =>
                   /\ ret = first
                   /\ n > 0
                   /\ ret = "OTHER" <=> (n = 7 /\ locals[var[7]] = None)
                   /\ ret # "OTHER" => ret = locals[var[n]]

\* RECTANGLE was returned for a series the wedge detector matches too
C3_RectangleBeforeWedge ==
    /\ pc = "returned"
    /\ ret = "RECTANGLE"
    /\ detect_wedge(df, features) = "ASC_WEDGE"

C5_ExceptionsBecomeOther ==
    (pc \in {"returned", "raised"} /\ df # Null /\ df.nonnumeric # {}) =>
        (pc = "returned" /\ ret = "OTHER")

\* C6 (Spec): 60 bars whose close rises by 1% per bar are classified
\* SINGLE_UP, whatever the highs and lows.
C6_SingleUpSixtyBars ==
    (pc = "returned" /\ df # Null /\ df.close = Geo60) => ret = "SINGLE_UP"

\* C7 (Spec): the triangle detector returns no match whenever
\* (|total return| > 0.08 and |normalized slope| > 0.015) or the up-day ratio
\* is outside [0.45, 0.55]; a strictly rising series is never classified as a
\* triangle.
C7_TriangleGuards ==
    (pc \in {"cascade", "returned"} /\ df # Null /\ Len(df.close) >= 20) =>
        LET closes    == df.close
            up        == up_ratio(closes, Q(1, 2))
            trending  == /\ FGt(FAbs(total_return(closes)), Q(8, 100))
                         /\ QGt(QAbs(NormalizedSlope(closes)), Q(15, 1000))
            biased    == QLt(up, Q(45, 100)) \/ QGt(up, Q(55, 100))
            rising    == \A i \in 1 .. Len(closes) - 1 : closes[i] < closes[i + 1]
            triangles == {"ASC_TRIANGLE", "DESC_TRIANGLE", "SYM_TRIANGLE"}
        IN  /\ (trending \/ biased) =>
                   /\ detect_triangle(df, features) = None
                   /\ locals.triangle \notin triangles
            /\ (rising /\ pc = "returned") => ret \notin triangles

\* the triangle detector ran on a strictly rising series whose highs and lows
\* converge by more than 20%, and returned no match
C7_RisingConverging ==
    /\ pc = "returned"
    /\ locals.triangle = None
    /\ \A i \in 1 .. Len(df.close) - 1 : df.close[i] < df.close[i + 1]
    /\ QGt(convergence_ratio(df.high, df.low), Q(20, 100))

\* C8 (Spec): the 50-bar close 100 -> 75 over bars 0-20, back to 100 over
\* bars 20-35, a pullback to 95-98 over bars 35-42, is classified CUP_HANDLE.
C8_CupHandleFiftyBars ==
    (pc = "returned" /\ df # Null /\ df.close = Cup50) => ret = "CUP_HANDLE"

\* C9 (SpecBatch): batch_classify returns a dict with exactly the keys of its
\* argument, and the value of each key is (the classification of its series,
\* the features of its series or None), wherever the entry stands in the dict
\* and whatever the other entries are.
C9_BatchResults ==
    batch_pc = "returned" =>
        /\ DOMAIN results = {df_dict[i][1] : i \in 1 .. Len(df_dict)}
        /\ \A i \in 1 .. Len(df_dict) :
               results[df_dict[i][1]] =
                   <<simple_rule_pattern(df_dict[i][2]), extract_features(df_dict[i][2])>>

\* a batch of two returned two different values, one of them SINGLE_UP
C9_TwoEntries ==
    /\ batch_pc = "returned"
    /\ Len(df_dict) = 2
    /\ results[df_dict[1][1]] # results[df_dict[2][1]]
    /\ \E c \in DOMAIN results : results[c][1] = "SINGLE_UP"

\* C10 (SpecBatch): extract_features returns None, and does not raise,
\* exactly when the series is None, empty or shorter than 10 bars; for any
\* other series with numeric columns it returns the nine statistics.
C10_InsufficientData ==
    /\ \A i \in 1 .. Len(df_dict) :
           df_dict[i][1] \in DOMAIN results =>
               LET d     == df_dict[i][2]
                   f     == results[df_dict[i][1]][2]
                   short == d = Null \/ Len(d.close) < 10
               IN  /\ f = Null <=> short
                   /\ ~short => DOMAIN f = {"trend_slope", "volatility", "price_range",
                                            "peak_count", "valley_count", "peak_ratio",
                                            "valley_ratio", "symmetry_score",
                                            "consolidation_ratio"}
    /\ batch_pc = "raised" =>
           LET d == df_dict[Cardinality(DOMAIN results) + 1][2]
           IN  d # Null /\ Len(d.close) >= 10 /\ d.nonnumeric # {}

\* a batch holds None for a 9-bar series and the statistics for a 10-bar one
C10_NineAndTenBars ==
    /\ batch_pc = "returned"
    /\ \E i, j \in 1 .. Len(df_dict) :
           /\ df_dict[i][2] # Null
           /\ df_dict[j][2] # Null
           /\ Len(df_dict[i][2].close) = 9
           /\ Len(df_dict[j][2].close) = 10
           /\ results[df_dict[i][1]][2] = Null
           /\ results[df_dict[j][1]][2] # Null

\* C11: simple_rule_pattern called concurrently by several workers: whatever
\* the interleaving of their steps and whatever the other workers are
\* classifying, a call that has returned has returned the label the same
\* series gets from a call that runs alone, and a call in progress holds
\* nothing but its own argument.
C11_ThreadSafe ==
    \A w \in Workers :
        /\ frames[w].pc = "returned" => frames[w].ret = simple_rule_pattern(frames[w].df)
        /\ frames[w].pc = "idle" => frames[w] = IdleFrame

\* two calls in flight at once: one has returned SINGLE_UP while another
\* worker, classifying a different series, is in the middle of its cascade
C11_TwoCallsInFlight ==
    \E w, u \in Workers :
        /\ w # u
        /\ frames[w].pc = "returned" /\ frames[w].ret = "SINGLE_UP"
        /\ frames[u].pc = "cascade" /\ Len(frames[u].evaluated) = 3
        /\ frames[u].df # frames[w].df

\* C12: PatternType has exactly 14 members, their integer codes are pairwise
\* distinct and none is zero, PATTERN_NAME_MAP gives each of the 14 a
\* (non-empty) display name and names nothing else, and a label a detector
\* has matched passes `if result:` - the call has returned that very label.
C12_ClosedEnumeration ==
    /\ Cardinality(Labels) = 14
    /\ \A a, b \in Labels : a # b => PatternType[a] # PatternType[b]
    /\ \A a \in Labels : PatternType[a] # 0
    /\ DOMAIN PATTERN_NAME_MAP = Labels
    /\ \A a \in Labels : Len(PATTERN_NAME_MAP[a]) > 0
    /\ \A v \in DOMAIN locals :
           locals[v] \notin {Unset, None} =>
               /\ locals[v] \in Labels
               /\ pc = "returned"
               /\ ret = locals[v]

\* the code-1 label has been matched by the first detector and returned
C12_FirstLabelReturned ==
    /\ pc = "returned"
    /\ locals.single_trend = "SINGLE_UP"
    /\ PatternType[ret] = 1

\* C13: once detect_single_trend has run on the series of the call, its
\* result is SINGLE_UP exactly when at least one of these holds, with slope
\* the regression slope of the closes over their mean and recent_return the
\* return over the last 30% of the bars:
\*   (1) total_return > 0.08, slope > 0.02, max_drawdown < 0.50, up_ratio > 0.45
\*   (2) total_return > 0.15, slope > 0.015, up_ratio > 0.40
\*   (3) recent_return > 0.10, total_return > 0.05, slope > 0.01, up_ratio > 0.45
\*   (4) total_return > 0.25, slope > 0.01, up_ratio > 0.35
C13_UpPolicy ==
    locals.single_trend # Unset =>
        LET c  == df.close
            tr == total_return(c)
            sl == NormalizedSlope(c)
            dd == max_drawdown(c)
            ur == up_ratio(c, QInt(0))
            rr == recent_return(c)
            one   == FGt(tr, Q(8, 100)) /\ QGt(sl, Q(2, 100)) /\ QLt(dd, Q(1, 2))
                     /\ QGt(ur, Q(45, 100))
            two   == FGt(tr, Q(15, 100)) /\ QGt(sl, Q(15, 1000)) /\ QGt(ur, Q(2, 5))
            three == FGt(rr, Q(1, 10)) /\ FGt(tr, Q(5, 100)) /\ QGt(sl, Q(1, 100))
                     /\ QGt(ur, Q(45, 100))
            four  == FGt(tr, Q(1, 4)) /\ QGt(sl, Q(1, 100)) /\ QGt(ur, Q(35, 100))
        IN  (locals.single_trend = "SINGLE_UP") <=> (one \/ two \/ three \/ four)

\* SINGLE_UP returned for a series that meets condition 3 and no other: its
\* total return is below 25% and its slope below 1.5%
C13_RecentMomentumOnly ==
    /\ pc = "returned"
    /\ ret = "SINGLE_UP"
    /\ FGt(recent_return(df.close), Q(1, 10))
    /\ ~FGt(total_return(df.close), Q(1, 4))
    /\ ~QGt(NormalizedSlope(df.close), Q(15, 1000))

\* C14: once detect_single_trend has run, its result is SINGLE_DOWN exactly
\* when (total_return < -0.08, slope < -0.02, max_drawdown < 0.50,
\* up_ratio < 0.45) or (total_return < -0.15, slope < -0.015, up_ratio < 0.40)
\* holds - nothing else, so no falling counterpart of UP conditions 3 and 4
\* gives SINGLE_DOWN; an UP condition and a DOWN condition never hold
\* together; and when neither set holds the result is None, not OTHER, and
\* the cascade goes on to the next detector.
C14_DownPolicy ==
    locals.single_trend # Unset =>
        LET c  == df.close
            tr == total_return(c)
            sl == NormalizedSlope(c)
            dd == max_drawdown(c)
            ur == up_ratio(c, QInt(0))
            rr == recent_return(c)
            up == \/ FGt(tr, Q(8, 100)) /\ QGt(sl, Q(2, 100)) /\ QLt(dd, Q(1, 2))
                     /\ QGt(ur, Q(45, 100))
                  \/ FGt(tr, Q(15, 100)) /\ QGt(sl, Q(15, 1000)) /\ QGt(ur, Q(2, 5))
                  \/ FGt(rr, Q(1, 10)) /\ FGt(tr, Q(5, 100)) /\ QGt(sl, Q(1, 100))
                     /\ QGt(ur, Q(45, 100))
                  \/ FGt(tr, Q(1, 4)) /\ QGt(sl, Q(1, 100)) /\ QGt(ur, Q(35, 100))
            down == \/ FLt(tr, Q(-8, 100)) /\ QLt(sl, Q(-2, 100)) /\ QLt(dd, Q(1, 2))
                       /\ QLt(ur, Q(45, 100))
                    \/ FLt(tr, Q(-15, 100)) /\ QLt(sl, Q(-15, 1000)) /\ QLt(ur, Q(2, 5))
        IN  /\ (locals.single_trend = "SINGLE_DOWN") <=> down
            /\ ~(up /\ down)
            /\ ~up /\ ~down =>
                   /\ locals.single_trend = None
                   /\ pc = "cascade" \/ Len(evaluated) > 1

\* a series that has fallen by more than 25% with a slope below -1% and
\* fewer than 65% rising days (UP condition 4 turned around) is no single
\* trend, and the cascade is about to run the next detector
C14_NoMirrorOfConditionFour ==
    /\ pc = "cascade"
    /\ evaluated = <<"detect_single_trend">>
    /\ locals.single_trend = None
    /\ FLt(total_return(df.close), Q(-1, 4))
    /\ QLt(NormalizedSlope(df.close), Q(-1, 100))
    /\ QLt(up_ratio(df.close, QInt(0)), Q(65, 100))

\* C15 (as claimed): detect_rectangle, called with the features of a series,
\* returns None for fewer than 20 bars and otherwise RECTANGLE exactly when
\* at least 70% of the closes lie within [10th percentile of the lows, 90th
\* percentile of the highs], the normalized slope of the closes is below 0.01
\* in magnitude, those of the highs and of the lows are below 0.015 in
\* magnitude, and the volatility std/mean of the closes is between 0.05 and
\* 0.25.
C15_RectangleAtLeast70 ==
    /\ probe # Null
    /\ probe.detector = "detect_rectangle"
    /\ probe.df # Null
    /\ probe.features # Null
    => IF Length(probe.df) < 20
       THEN probe.result = None
       ELSE LET c      == probe.df.close
                n      == Len(c)
                lower  == Percentile(probe.df.low, 10)
                upper  == Percentile(probe.df.high, 90)
                inside == Cardinality({i \in 1 .. n :
                              QGe(QInt(c[i]), lower) /\ QLe(QInt(c[i]), upper)})
                sigma2 == QDiv(Variance(c), QMul(QAdd(Mean(c), EPS), QAdd(Mean(c), EPS)))
            IN  (probe.result = "RECTANGLE") <=>
                    /\ 100 * inside >= 70 * n
                    /\ QLt(QAbs(NormalizedSlope(c)), Q(1, 100))
                    /\ QLt(QAbs(NormalizedSlope(probe.df.high)), Q(15, 1000))
                    /\ QLt(QAbs(NormalizedSlope(probe.df.low)), Q(15, 1000))
                    /\ QGt(sigma2, Q(25, 10000))
                    /\ QLt(sigma2, Q(625, 10000))

\* C15 (amended): the same with MORE than 70% of the closes within the band:
\* a series with exactly 70% of its closes in the band is no rectangle.  The
\* volatility bounds are exclusive on both sides.
C15_RectangleMoreThan70 ==
    /\ probe # Null
    /\ probe.detector = "detect_rectangle"
    /\ probe.df # Null
    /\ probe.features # Null
    => IF Length(probe.df) < 20
       THEN probe.result = None
       ELSE LET c      == probe.df.close
                n      == Len(c)
                lower  == Percentile(probe.df.low, 10)
                upper  == Percentile(probe.df.high, 90)
                inside == Cardinality({i \in 1 .. n :
                              QGe(QInt(c[i]), lower) /\ QLe(QInt(c[i]), upper)})
                sigma2 == QDiv(Variance(c), QMul(QAdd(Mean(c), EPS), QAdd(Mean(c), EPS)))
            IN  (probe.result = "RECTANGLE") <=>
                    /\ 100 * inside > 70 * n
                    /\ QLt(QAbs(NormalizedSlope(c)), Q(1, 100))
                    /\ QLt(QAbs(NormalizedSlope(probe.df.high)), Q(15, 1000))
                    /\ QLt(QAbs(NormalizedSlope(probe.df.low)), Q(15, 1000))
                    /\ QGt(sigma2, Q(25, 10000))
                    /\ QLt(sigma2, Q(625, 10000))

\* a rectangle with 15 of its 20 closes within the band - and none with 14
C15_FifteenOfTwenty ==
    /\ probe # Null
    /\ probe.detector = "detect_rectangle"
    /\ probe.df = FiveOut20
    /\ probe.result = "RECTANGLE"
    /\ detect_rectangle(SixOut20, extract_features(SixOut20)) = None

\* C16: detect_wedge, called with the features of a series of at least 20
\* bars: with early_range and late_range the mean high minus the mean low
\* over the first and the last third of the bars and convergence_ratio =
\* (early_range - late_range) / early_range, the result is ASC_WEDGE exactly
\* when convergence_ratio > 0.15, both normalized slopes are above 0.01 and
\* the high slope is below the low slope; DESC_WEDGE exactly when
\* convergence_ratio > 0.15, both slopes are below -0.01 and |low slope| <
\* |high slope|; None otherwise; and the two conditions never hold together.
\* (A zero early_range gives no convergence ratio, hence no wedge.)
C16_WedgeRule ==
    /\ probe # Null
    /\ probe.detector = "detect_wedge"
    /\ probe.df # Null
    /\ probe.features # Null
    /\ Length(probe.df) >= 20
    => LET highs == probe.df.high
           lows  == probe.df.low
           n     == Len(highs)
           third == n \div 3
           early == QSub(Mean(SubSeq(highs, 1, third)), Mean(SubSeq(lows, 1, third)))
           late  == QSub(Mean(SubSeq(highs, n - third + 1, n)),
                         Mean(SubSeq(lows, n - third + 1, n)))
           conv  == QSgn(early) # 0 /\ QGt(QDiv(QSub(early, late), early), Q(15, 100))
           hs    == NormalizedSlope(highs)
           ls    == NormalizedSlope(lows)
           asc   == conv /\ QGt(hs, Q(1, 100)) /\ QGt(ls, Q(1, 100)) /\ QLt(hs, ls)
           desc  == conv /\ QLt(hs, Q(-1, 100)) /\ QLt(ls, Q(-1, 100))
                    /\ QLt(QAbs(ls), QAbs(hs))
       IN  /\ (probe.result = "ASC_WEDGE") <=> asc
           /\ (probe.result = "DESC_WEDGE") <=> desc
           /\ ~(asc /\ desc)
           /\ ~asc /\ ~desc => probe.result = None

\* a rising wedge whose convergence ratio is between 0.15 and 0.20: the
\* range between its highs and lows narrows from 180 to 140
C16_NarrowRisingWedge ==
    /\ probe # Null
    /\ probe.detector = "detect_wedge"
    /\ probe.result = "ASC_WEDGE"
    /\ QLt(convergence_ratio(probe.df.high, probe.df.low), Q(20, 100))

\* C17 (as claimed): detect_triangle, called with the features of a series
\* on which neither exclusion guard fires (|total_return| > 0.08 with
\* |slope| > 0.015; up_ratio outside [0.45, 0.55]): with convergence_ratio =
\* (early_range - late_range) / early_range AT LEAST 0.20 the result is
\* ASC_TRIANGLE if |high_slope| < 0.03 and low_slope > 0.02, otherwise
\* DESC_TRIANGLE if high_slope < -0.02 and |low_slope| < 0.03, otherwise
\* SYM_TRIANGLE if both |slopes| < 0.03, otherwise None; below the threshold
\* it is None.
C17_TriangleAtLeast20 ==
    /\ probe # Null
    /\ probe.detector = "detect_triangle"
    /\ probe.df # Null
    /\ probe.features # Null
    /\ LET c  == probe.df.close
           ur == up_ratio(c, Q(1, 2))
       IN  /\ ~(FGt(FAbs(total_return(c)), Q(8, 100))
                  /\ QGt(QAbs(NormalizedSlope(c)), Q(15, 1000)))
           /\ ~(QGt(ur, Q(55, 100)) \/ QLt(ur, Q(45, 100)))
    => LET highs == probe.df.high
           lows  == probe.df.low
           n     == Len(highs)
           third == n \div 3
           early == QSub(Mean(SubSeq(highs, 1, third)), Mean(SubSeq(lows, 1, third)))
           late  == QSub(Mean(SubSeq(highs, n - third + 1, n)),
                         Mean(SubSeq(lows, n - third + 1, n)))
           conv  == QSgn(early) # 0 /\ QGe(QDiv(QSub(early, late), early), Q(20, 100))
           hs    == NormalizedSlope(highs)
           ls    == NormalizedSlope(lows)
       IN  probe.result =
               IF ~conv THEN None
               ELSE IF QLt(QAbs(hs), Q(3, 100)) /\ QGt(ls, Q(2, 100)) THEN "ASC_TRIANGLE"
               ELSE IF QLt(hs, Q(-2, 100)) /\ QLt(QAbs(ls), Q(3, 100)) THEN "DESC_TRIANGLE"
               ELSE IF QLt(QAbs(hs), Q(3, 100)) /\ QLt(QAbs(ls), Q(3, 100))
                    THEN "SYM_TRIANGLE"
               ELSE None

\* C17 (amended): the same with a convergence ratio ABOVE 0.20: a range that
\* narrows by exactly 20% is no triangle.
C17_TriangleAbove20 ==
    /\ probe # Null
    /\ probe.detector = "detect_triangle"
    /\ probe.df # Null
    /\ probe.features # Null
    /\ LET c  == probe.df.close
           ur == up_ratio(c, Q(1, 2))
       IN  /\ ~(FGt(FAbs(total_return(c)), Q(8, 100))
                  /\ QGt(QAbs(NormalizedSlope(c)), Q(15, 1000)))
           /\ ~(QGt(ur, Q(55, 100)) \/ QLt(ur, Q(45, 100)))
    => LET highs == probe.df.high
           lows  == probe.df.low
           n     == Len(highs)
           third == n \div 3
           early == QSub(Mean(SubSeq(highs, 1, third)), Mean(SubSeq(lows, 1, third)))
           late  == QSub(Mean(SubSeq(highs, n - third + 1, n)),
                         Mean(SubSeq(lows, n - third + 1, n)))
           conv  == QSgn(early) # 0 /\ QGt(QDiv(QSub(early, late), early), Q(20, 100))
           hs    == NormalizedSlope(highs)
           ls    == NormalizedSlope(lows)
       IN  probe.result =
               IF ~conv THEN None
               ELSE IF QLt(QAbs(hs), Q(3, 100)) /\ QGt(ls, Q(2, 100)) THEN "ASC_TRIANGLE"
               ELSE IF QLt(hs, Q(-2, 100)) /\ QLt(QAbs(ls), Q(3, 100)) THEN "DESC_TRIANGLE"
               ELSE IF QLt(QAbs(hs), Q(3, 100)) /\ QLt(QAbs(ls), Q(3, 100))
                    THEN "SYM_TRIANGLE"
               ELSE None

\* ASC_TRIANGLE for a series that meets the SYM_TRIANGLE condition as well
C17_AscendingBeforeSymmetric ==
    /\ probe # Null
    /\ probe.detector = "detect_triangle"
    /\ probe.result = "ASC_TRIANGLE"
    /\ QLt(QAbs(NormalizedSlope(probe.df.high)), Q(3, 100))
    /\ QLt(QAbs(NormalizedSlope(probe.df.low)), Q(3, 100))

C19_HeadInTheMiddle ==
    /\ probe # Null
    /\ probe.detector = "detect_head_shoulder"
    /\ probe.result = "HEAD_SHOULDER_TOP"
    => LET c      == probe.df.close
           window == IF Len(c) \div 15 > 3 THEN Len(c) \div 15 ELSE 3
           times  == ArgRelExtrema(c, TRUE, window)
           top3   == ArgSort3(Take(c, times), TRUE)
           head   == times[top3[1]]
           second == times[top3[2]]
           third  == times[top3[3]]
       IN  \/ second < head /\ head < third
           \/ third < head /\ head < second

\* C20: detect_head_shoulder, called with the features of a series of at
\* least 30 bars, with the local peaks and valleys of window max(3, n/15):
\* HEAD_SHOULDER_TOP whenever there are at least 3 peaks and the three
\* highest, highest first, have strictly decreasing bar indices - whatever
\* the valleys; otherwise HEAD_SHOULDER_BOTTOM whenever there are at least 3
\* valleys and the three lowest, lowest first, have strictly decreasing bar
\* indices - whatever the peaks; otherwise None.
C20_PeaksOnlyThenValleysOnly ==
    /\ probe # Null
    /\ probe.detector = "detect_head_shoulder"
    /\ probe.df # Null
    /\ probe.features # Null
    /\ Length(probe.df) >= 30
    => LET c       == probe.df.close
           window  == IF Len(c) \div 15 > 3 THEN Len(c) \div 15 ELSE 3
           peaks   == ArgRelExtrema(c, TRUE, window)
           valleys == ArgRelExtrema(c, FALSE, window)
           high3   == ArgSort3(Take(c, peaks), TRUE)
           low3    == ArgSort3(Take(c, valleys), FALSE)
       IN  probe.result =
               IF /\ Len(peaks) >= 3
                  /\ peaks[high3[1]] > peaks[high3[2]]
                  /\ peaks[high3[2]] > peaks[high3[3]]
               THEN "HEAD_SHOULDER_TOP"
               ELSE IF /\ Len(valleys) >= 3
                       /\ valleys[low3[1]] > valleys[low3[2]]
                       /\ valleys[low3[2]] > valleys[low3[3]]
               THEN "HEAD_SHOULDER_BOTTOM"
               ELSE None

\* C21: detect_round_pattern returns no match for fewer than 30 bars or a
\* volatility above 0.2; otherwise it returns ROUND_TOP exactly when the
\* normalized quadratic coefficient is below -0.001 and the symmetry score is
\* above 0.8, ROUND_BOTTOM exactly when the coefficient is above 0.001 and the
\* symmetry score is above 0.8, and no match in every other case; the two
\* labels exclude each other.
C21_RoundRule ==
    /\ probe # Null
    /\ probe.detector = "detect_round_pattern"
    /\ probe.df # Null
    /\ probe.features # Null
    => LET closes    == probe.df.close
           n         == Len(closes)
           coeff     == normalized_quad(closes)
           symmetric == QGt(probe.features.symmetry_score, Q(8, 10))
           top       == QLt(coeff, Q(-1, 1000)) /\ symmetric
           bottom    == QGt(coeff, Q(1, 1000)) /\ symmetric
       IN  IF n < 30 \/ RootGt(probe.features.volatility, Q(2, 10))
           THEN probe.result = None
           ELSE /\ (probe.result = "ROUND_TOP") <=> top
                /\ (probe.result = "ROUND_BOTTOM") <=> bottom
                /\ (probe.result = None) <=> (~top /\ ~bottom)
                /\ ~(top /\ bottom)

\* a thirty-bar arch of low volatility is a round top
C21_ArchIsRoundTop ==
    /\ probe # Null
    /\ probe.detector = "detect_round_pattern"
    /\ probe.df = Env(Arch30, EnvFlat)
    /\ probe.features # Null
    /\ ~RootGt(probe.features.volatility, Q(2, 10))
    /\ probe.result = "ROUND_TOP"

\* C22: every division of the detectors has a denominator guarded by 1e-8, so
\* no quotient is inf or NaN for any numeric series, a series whose first close
\* is 0 or whose closes are all equal included: the total return of
\* detect_single_trend and detect_triangle, and the recent return of
\* detect_single_trend, are finite numbers.
C22_NoInfNoNaN ==
    /\ probe # Null
    /\ probe.detector \in {"detect_single_trend", "detect_triangle"}
    /\ ~Unusable(probe.df, probe.features)
    /\ Length(probe.df) >= 20
    => /\ ~IsSpecial(total_return(probe.df.close))
       /\ probe.detector = "detect_single_trend" => ~IsSpecial(recent_return(probe.df.close))

\* C23 (Spec): the call returns CUP_HANDLE only for at least 40 bars, and a
\* head-and-shoulders or round label only for at least 30 bars; for 20 to 29
\* bars it returns a single trend, RECTANGLE, a wedge, a triangle or OTHER.
C23_LengthGating ==
    (pc = "returned" /\ df # Null) =>
        LET n == Len(df.close)
        IN  /\ ret = "CUP_HANDLE" => n >= 40
            /\ ret \in {"HEAD_SHOULDER_TOP", "HEAD_SHOULDER_BOTTOM", "ROUND_TOP", "ROUND_BOTTOM"}
                   => n >= 30
            /\ (20 <= n /\ n < 30)
                   => ret \in {"SINGLE_UP", "SINGLE_DOWN", "RECTANGLE", "ASC_WEDGE", "DESC_WEDGE",
                               "ASC_TRIANGLE", "DESC_TRIANGLE", "SYM_TRIANGLE", "OTHER"}

\* a 25-bar arch, round in every respect but its length, has been answered with OTHER
C23_ShortArchIsOther ==
    /\ pc = "returned"
    /\ df = Env(Arch25, EnvFlat)
    /\ locals.round_pattern = None
    /\ ret = "OTHER"

\* C24 (SpecJobs): run_full_recalculation classifies every stock again for
\* every requested period type, whatever last_trade_date is recorded; when it
\* has completed without an error, it has appended a result row for every
\* (stock, period type) pair.
C24_FullRecalculation ==
    (job.kind = "full" /\ job.pc = "returned" /\ job.latest_date # <<>> /\ job.logged = <<>>) =>
        \A i \in 1 .. Len(job.ts_codes), k \in 1 .. Len(job.period_types) :
            \E r \in (job.rows_at_start + 1) .. Len(pattern_analysis_result) :
                pattern_analysis_result[r] =
                    ResultRow(job.ts_codes[i], job.period_types[k], job.latest_date)

\* C25 (SpecReturns): for a window at least as long as the series,
\* calc_max_drawdown returns the largest value over all bars of (running
\* maximum close - close) / running maximum close; it is positive when some
\* close is lower than an earlier close.
C25_MaxDrawdown ==
    /\ probe # Null
    /\ Len(probe.closes) >= 2
    /\ probe.window >= Len(probe.closes)
    => LET closes   == probe.closes
           n        == Len(closes)
           drawdown == [i \in 1 .. n |-> Q(MaxTo(closes, i) - closes[i], MaxTo(closes, i))]
       IN  /\ probe.result # Null
           /\ QCmp(probe.result, QMaxTo(drawdown, n)) = 0
           /\ (\E i, j \in 1 .. n : i < j /\ closes[j] < closes[i]) => QGt(probe.result, QInt(0))

C27_StatusAfterResult ==
    /\ \A pair \in DOMAIN pattern_analysis_status :
           pattern_analysis_status[pair] # ResetDate
               => \E r \in 1 .. Len(pattern_analysis_result) :
                      pattern_analysis_result[r] =
                          ResultRow(pair[1], pair[2], <<pattern_analysis_status[pair]>>)
    /\ job.raised_in \in {"classify_single_stock", "save_result"}
           => LET pair   == <<job.ts_codes[job.idx], job.period_types[job.k]>>
                  before == job.status_before
              IN  /\ pair \in DOMAIN pattern_analysis_status <=> pair \in DOMAIN before
                  /\ pair \in DOMAIN before => pattern_analysis_status[pair] = before[pair]
                  /\ ~job.read_failed
                         => ~UpToDate(get_last_processed_date(pair[1], pair[2], TRUE),
                                      job.latest_date)

\* save_result has raised for a pair that had been processed for an earlier
\* date: its status still holds the earlier date
C27_SaveFailedStatusKept ==
    /\ job.raised_in = "save_result"
    /\ <<job.ts_codes[job.idx], job.period_types[job.k]>> \in DOMAIN pattern_analysis_status
    /\ pattern_analysis_status[<<job.ts_codes[job.idx], job.period_types[job.k]>>] \in
           1 .. (job.latest_date[1] - 1)

\* C28 (SpecJobs): in run_incremental_job an exception raised in the work on
\* one stock is logged and does not leave the job; when the loop has finished
\* every stock of the list has been processed, the failed ones and the ones
\* after them included, and when the job has returned the engine is disposed.
C28_FailureIsolation ==
    job.kind = "incremental" =>
        /\ job.visited # <<>> => job.pc # "raised"
        /\ \A i \in 1 .. Len(job.logged) : \E v \in 1 .. Len(job.visited) :
               job.logged[i] = job.visited[v]
        /\ job.raised_in # "none" => job.logged # <<>>
        /\ (job.pc \in {"close_all_connections", "returned"} /\ job.latest_date # <<>>)
               => job.visited = job.ts_codes
        /\ (job.pc = "returned" /\ job.latest_date # <<>>)
               => /\ _engine = 0
                  /\ \A e \in 1 .. Len(engines) : engines[e] # "live"

\* the job has returned: the first of two stocks failed, the second one got its row
C28_SecondStockProcessed ==
    /\ job.kind = "incremental"
    /\ job.pc = "returned"
    /\ Len(job.ts_codes) = 2
    /\ job.logged = <<job.ts_codes[1]>>
    /\ job.visited = job.ts_codes
    /\ \E r \in (job.rows_at_start + 1) .. Len(pattern_analysis_result) :
           pattern_analysis_result[r].ts_code = job.ts_codes[2]
    /\ _engine = 0

\* C29 (SpecEngine): under every interleaving of get_engine calls with
\* close_all_connections, a get_engine call returns an engine, not None, that
\* has not been disposed, and at no time is more than one engine live.
C29_EngineSingleton ==
    /\ \A t \in Threads :
           (threads[t].op = "get_engine" /\ threads[t].pc = "returned")
               => threads[t].ret # 0 /\ ~threads[t].ret_disposed
    /\ Cardinality({e \in 1 .. Len(engines) : engines[e] = "live"}) <= 1

\* C30 (SpecCup): when the position test of detect_cup_handle passes (n >= 40,
\* floor(0.3 n) <= max_idx <= floor(0.6 n)), max_idx + n // 10 does not exceed
\* 0.7 n, the cup ends at floor(0.7 n) whatever max_idx is, and the handle has
\* exactly n // 8 bars, which is at least 5, so that the rejection of a handle
\* shorter than 5 bars never happens.
C30_CupExtentsFixedByLength ==
    (probe # Null /\ probe.n >= 40 /\ probe.in_place) =>
        /\ 10 * (probe.max_idx + probe.n \div 10) <= 7 * probe.n
        /\ probe.cup_end = (7 * probe.n) \div 10
        /\ probe.handle_end - probe.handle_start = probe.n \div 8
        /\ probe.handle_end - probe.handle_start >= 5

====
